---- MODULE Spec2Model ----
(***************************************************************************)
(* Verification model of the twenty-first library.                         *)
(*                                                                         *)
(*   SpecMmr    : MMR accumulators and MmrSuccessorProof                   *)
(*                (util_types/mmr/mmr_successor_proof.rs)                  *)
(*   SpecMerkle : the Blake3 Merkle tree, its single-leaf proofs,          *)
(*                authentication paths and compressed multi-proofs         *)
(*                (util_types/merkle_tree.rs)                              *)
(*   SpecTip5   : the Tip5 cube maps, S-box, round function and sponge     *)
(*                (shared_math/tip5.rs)                                    *)
(*   SpecPoly   : Polynomial<PFElem> over a prime field                    *)
(*                (shared_math/polynomial.rs)                              *)
(*   SpecDbtVec, SpecDbtSingleton : DbtVec and DbtSingleton over a         *)
(*                SimpleRustyStorage (util_types/storage_schema.rs)        *)
(*   SpecTriton : Display and parse of Triton VM programs                  *)
(*                (shared_math/stark/triton/instruction.rs)                *)
(*                                                                         *)
(* Digests are modelled as terms of a free algebra, written in prefix      *)
(* notation as sequences of integers: an atom is <<k>> with k >= 0 and     *)
(* the hash of a pair is <<-1>> \o left \o right.  Prefix notation is      *)
(* uniquely readable, so the pair hash is injective and never equals an    *)
(* atom: the hash is collision-free.                                       *)
(***************************************************************************)
EXTENDS Integers, Sequences, FiniteSets, TLC

VARIABLES
    \* ---- MMR successor proof scenario ----
    old_mmr,              \* MmrAccumulator the proof starts from
    new_leafs,            \* digests appended to old_mmr so far
    new_mmr,              \* accumulator handed to verify as the successor
    mmr_successor_proof,  \* MmrSuccessorProof.paths handed to verify
    mmr_scenario,         \* which inputs verify was called with
    mmr_verified,         \* what MmrSuccessorProof::verify returned
    \* ---- Merkle tree scenario ----
    values,               \* leaf values the tree was built from
    tree,                 \* MerkleTree { root_hash, nodes, height }
    root_hash,            \* root hash handed to the verifiers
    indices,              \* leaf indices handed to the verifiers
    proof,                \* Vec<Node<T>> or Vec<PartialAuthenticationPath<T>>
    mt_scenario,          \* which operation produced the current verdict
    mt_verdict,           \* "true" / "false" / "panic" of the verifier(s)
    \* ---- Tip5 scenario ----
    tip5_scenario,        \* which Tip5 operation was called
    tip5_x,               \* 16-bit argument of the cube maps
    tip5_cubes,           \* <<fermat_cube_map(x), inverted_fermat_cube_map(x)>>
    sponge_before,        \* Tip5State handed to round
    round_index,          \* round_index handed to round
    sponge,               \* Tip5State after round
    hash_input,           \* input of hash_varlen
    hash_run,             \* padded input, absorbed blocks and digest of hash_varlen
    \* ---- Polynomial scenario ----
    poly_op,              \* which operation of Polynomial was called
    poly_args,            \* its arguments
    poly_result,          \* what it returned, or that it panicked
    \* ---- storage schema scenario ----
    db,                   \* the LevelDB contents: key bytes -> value bytes
    vector,               \* DbtVec { current_length, key_prefix, write_queue, cache }
    singleton,            \* DbtSingleton { current_value, old_value, key }
    storage_op,           \* the last operation called, "panic" once one aborted
    storage_ret,          \* what the last operation returned
    plain_list,           \* an ordinary vector given the same push / set / pop
    plain_ret,            \* what the last pop returns on the ordinary vector
    persisted_list,       \* plain_list as it was at the last persist
    restored,             \* restore_or_new was called on this vector object
    popped_empty,         \* pop was called on an empty vector at some point
    set_value,            \* the value of a set that was then persisted
    \* ---- Triton instruction scenario ----
    program,              \* Program.instructions
    code,                 \* the text format!("{}", program), as characters
    parsed,               \* the Result of parse(code)
    triton_step           \* "program", "formatted" or "parsed"

mmrVars == <<old_mmr, new_leafs, new_mmr, mmr_successor_proof, mmr_scenario, mmr_verified>>
mtVars == <<values, tree, root_hash, indices, proof, mt_scenario, mt_verdict>>
tip5Vars == <<tip5_scenario, tip5_x, tip5_cubes, sponge_before, round_index, sponge,
              hash_input, hash_run>>
polyVars == <<poly_op, poly_args, poly_result>>
dbVars == <<db, vector, singleton, storage_op, storage_ret, plain_list,
            plain_ret, persisted_list, restored, popped_empty, set_value>>
tritonVars == <<program, code, parsed, triton_step>>
vars == <<mmrVars, mtVars, tip5Vars, polyVars, dbVars, tritonVars>>

\* the storage variables of a run that never opens a database
StorageIdle ==
    /\ db = {}
    /\ vector = <<>>
    /\ singleton = <<>>
    /\ storage_op = "idle"
    /\ storage_ret = <<>>
    /\ plain_list = <<>>
    /\ plain_ret = <<>>
    /\ persisted_list = <<>>
    /\ restored = FALSE
    /\ popped_empty = FALSE
    /\ set_value = <<>>

\* the Triton variables of a run that never handles a program
TritonIdle ==
    /\ program = <<>>
    /\ code = <<>>
    /\ parsed = <<>>
    /\ triton_step = "idle"


\* the Tip5 variables of a run that never calls Tip5
Tip5Idle ==
    /\ tip5_scenario = "idle"
    /\ tip5_x = 0
    /\ tip5_cubes = <<>>
    /\ sponge_before = <<>>
    /\ round_index = 0
    /\ sponge = <<>>
    /\ hash_input = <<>>
    /\ hash_run = <<>>

\* the Polynomial variables of a run that never calls Polynomial
PolyIdle ==
    /\ poly_op = "idle"
    /\ poly_args = <<>>
    /\ poly_result = <<>>

(***************************************************************************)
(* Bounds of the model.                                                    *)
(***************************************************************************)
\* old accumulators have 0..MaxOldLeafs leafs
MaxOldLeafs == 7
\* at most MaxNewLeafs leafs are appended
MaxNewLeafs == 3
\* digests of peaks and leafs are the atoms <<1>> .. <<NumDigests>>
NumDigests == 2
\* forged leaf counts range over 0..MaxFakeLeafs
MaxFakeLeafs == 12
\* Merkle trees have 1, 2, 4, .. leaves, at most MaxLeafs
MaxLeafs == 4
\* leaf values are 1..NumValues (or 1..n for pairwise distinct leaves)
NumValues == 2
\* a multi-proof is asked for at most MaxIndices leaf indices
MaxIndices == 4

(***************************************************************************)
(* Digests and bit arithmetic on u64 leaf counts.                          *)
(***************************************************************************)
\* Digest::default()
DigestDefault == <<0>>

Atoms == {<<k>> : k \in 1..NumDigests}

hash_pair(left, right) == <<-1>> \o left \o right

RECURSIVE count_ones(_)
count_ones(n) == IF n = 0 THEN 0 ELSE (n % 2) + count_ones(n \div 2)

RECURSIVE trailing_ones(_)
trailing_ones(n) == IF n % 2 = 1 THEN 1 + trailing_ones(n \div 2) ELSE 0

\* u64::BITS - n.leading_zeros() - 1, for n > 0
RECURSIVE ilog2(_)
ilog2(n) == IF n <= 1 THEN 0 ELSE 1 + ilog2(n \div 2)

Bit(n, k) == (n \div (2 ^ k)) % 2

\* the elements of sequence s, as a set
Range(s) == {s[k] : k \in DOMAIN s}

(***************************************************************************)
(* MMR geometry (util_types::mmr::shared_basic / shared_advanced).  Nodes  *)
(* of the forest are numbered from 1 in depth-first, left-to-right         *)
(* (post-order) traversal; an accumulator is [peaks, num_leafs].           *)
(***************************************************************************)
MmrAccumulator(peaks, num_leafs) == [peaks |-> peaks, num_leafs |-> num_leafs]

\* heights of the set bits of n from bit h downwards, highest first
RECURSIVE PeakHeightsFrom(_, _)
PeakHeightsFrom(n, h) ==
    IF h < 0 THEN <<>>
    ELSE (IF Bit(n, h) = 1 THEN <<h>> ELSE <<>>) \o PeakHeightsFrom(n, h - 1)

get_peak_heights(leaf_count) ==
    IF leaf_count = 0 THEN <<>> ELSE PeakHeightsFrom(leaf_count, ilog2(leaf_count))

\* node index of each peak: a mountain of height h holds 2^(h+1) - 1 nodes
RECURSIVE PeakNodeIndices(_, _)
PeakNodeIndices(heights, before) ==
    IF heights = <<>> THEN <<>>
    ELSE LET top == before + 2 ^ (Head(heights) + 1) - 1
         IN  <<top>> \o PeakNodeIndices(Tail(heights), top)

get_peak_heights_and_peak_node_indices(leaf_count) ==
    LET heights == get_peak_heights(leaf_count)
    IN  <<heights, PeakNodeIndices(heights, 0)>>

\* smallest node 2^(h+1) - 1 that is >= node_index, with its height h
RECURSIVE LeftmostAncestorFrom(_, _)
LeftmostAncestorFrom(node_index, h) ==
    IF 2 ^ (h + 1) - 1 >= node_index THEN <<2 ^ (h + 1) - 1, h>>
    ELSE LeftmostAncestorFrom(node_index, h + 1)

leftmost_ancestor(node_index) == LeftmostAncestorFrom(node_index, 0)

\* descend from `node` (of height `height`) to node_index
RECURSIVE RightChildDescend(_, _, _)
RightChildDescend(node_index, node, height) ==
    LET left_child == node - 2 ^ height
        right_child == node - 1
    IN  IF node_index = left_child THEN <<FALSE, height - 1>>
        ELSE IF node_index < left_child
             THEN RightChildDescend(node_index, left_child, height - 1)
        ELSE IF node_index = right_child THEN <<TRUE, height - 1>>
        ELSE RightChildDescend(node_index, right_child, height - 1)

\* (is node_index a right child, height of node_index)
right_child_and_height(node_index) ==
    LET la == leftmost_ancestor(node_index)
    IN  IF la[1] = node_index THEN <<FALSE, la[2]>>
        ELSE RightChildDescend(node_index, la[1], la[2])

parent(node_index) ==
    LET rh == right_child_and_height(node_index)
    IN  IF rh[1] THEN node_index + 1 ELSE node_index + 2 ^ (rh[2] + 1)

left_sibling(node_index, height) == node_index - 2 ^ (height + 1) + 1

right_sibling(node_index, height) == node_index + 2 ^ (height + 1) - 1

leaf_index_to_node_index(leaf_index) == 2 * leaf_index - count_ones(leaf_index) + 1

\* the leaf's node, then one parent per peak the append merges
node_indices_added_by_append(old_leaf_count) ==
    LET first == leaf_index_to_node_index(old_leaf_count)
    IN  [k \in 1..(trailing_ones(old_leaf_count) + 1) |-> first + k - 1]

\* merge the two rightmost peaks `count` times; path collects the left ones
RECURSIVE MergePeaks(_, _, _)
MergePeaks(peaks, path, count) ==
    IF count = 0 THEN <<peaks, path>>
    ELSE LET n == Len(peaks)
             new_hash == peaks[n]
             previous_peak == peaks[n - 1]
         IN  MergePeaks(Append(SubSeq(peaks, 1, n - 2), hash_pair(previous_peak, new_hash)),
                        Append(path, previous_peak), count - 1)

\* (new peaks, authentication path of the new leaf)
calculate_new_peaks_from_append(old_leaf_count, old_peaks, new_leaf) ==
    MergePeaks(Append(old_peaks, new_leaf), <<>>, trailing_ones(old_leaf_count))

\* MmrAccumulator::append
MmraAppend(mmra, new_leaf) ==
    MmrAccumulator(
        calculate_new_peaks_from_append(mmra.num_leafs, mmra.peaks, new_leaf)[1],
        mmra.num_leafs + 1)

\* walk the mountains of leaf_count from the highest; ret is the leaf's
\* offset into the mountains not yet skipped
RECURSIVE MtIndexFrom(_, _, _, _)
MtIndexFrom(leaf_count, h, ret, peak_index) ==
    LET pow == 2 ^ h
        maybe_pow == pow * Bit(leaf_count, h)
    IN  IF h = 0 \/ ret < maybe_pow THEN <<ret + pow, peak_index>>
        ELSE MtIndexFrom(leaf_count, h - 1, ret - maybe_pow,
                         peak_index + (IF maybe_pow # 0 THEN 1 ELSE 0))

\* (Merkle tree index of the leaf within its mountain, index of that peak);
\* requires leaf_index < leaf_count
leaf_index_to_mt_index_and_peak_index(leaf_index, leaf_count) ==
    MtIndexFrom(leaf_count, ilog2(leaf_count), leaf_index, 0)

(***************************************************************************)
(* MmrSuccessorProof (mmr_successor_proof.rs).  A proof is its `paths`:    *)
(* one list of digests per peak of the old accumulator.                    *)
(***************************************************************************)
Min(a, b) == IF a < b THEN a ELSE b

\* Option<(list_index, sibling)>: position k of a list holds the sibling's
\* node index, or NoneNeeded once the sibling has been recorded
NoneNeeded == 0

\* mutant: the sibling is always taken to be the right one
RECURSIVE NeededSiblings_AlwaysRight(_, _, _)
NeededSiblings_AlwaysRight(current_index, current_height, indices_of_new_peaks) ==
    IF current_index \in Range(indices_of_new_peaks) THEN <<>>
    ELSE <<right_sibling(current_index, current_height)>>
         \o NeededSiblings_AlwaysRight(parent(current_index), current_height + 1,
                                       indices_of_new_peaks)

\* node indices of the siblings met walking up from an old peak until a
\* peak of the new accumulator is reached (the `while` of lines 45-55)
RECURSIVE NeededSiblings(_, _, _)
NeededSiblings(current_index, current_height, indices_of_new_peaks) ==
    IF current_index \in Range(indices_of_new_peaks) THEN <<>>
    ELSE LET parent_index == parent(current_index)
             right == right_sibling(current_index, current_height)
             sibling == IF parent(right) # parent_index
                        THEN left_sibling(current_index, current_height)
                        ELSE right
         IN  <<sibling>> \o NeededSiblings(parent_index, current_height + 1,
                                           indices_of_new_peaks)

\* the .scan() of lines 77-85: the new leaf and the nodes above it, one per
\* element of the authentication path
RECURSIVE ScanNewNodes(_, _)
ScanNewNodes(runner, authentication_path) ==
    IF authentication_path = <<>> THEN <<>>
    ELSE <<runner>> \o ScanNewNodes(hash_pair(Head(authentication_path), runner),
                                    Tail(authentication_path))

Zip(a, b) == [k \in 1..Min(Len(a), Len(b)) |-> <<a[k], b[k]>>]

\* lines 92-101 for one (index, node): in every path, the first entry that
\* still needs `index` receives `node` and is marked done
RecordNode(st, index, node) ==
    LET hit(i) == {k \in DOMAIN st.needed_indices[i] : st.needed_indices[i][k] = index}
        first(i) == CHOOSE k \in hit(i) : \A j \in hit(i) : k <= j
    IN  [st EXCEPT
           !.paths = [i \in DOMAIN st.paths |->
                        IF hit(i) = {} THEN st.paths[i]
                        ELSE [st.paths[i] EXCEPT ![first(i)] = node]],
           !.needed_indices = [i \in DOMAIN st.needed_indices |->
                        IF hit(i) = {} THEN st.needed_indices[i]
                        ELSE [st.needed_indices[i] EXCEPT ![first(i)] = NoneNeeded]]]

RECURSIVE RecordNodes(_, _)
RecordNodes(st, pairs) ==
    IF pairs = <<>> THEN st
    ELSE RecordNodes(RecordNode(st, Head(pairs)[1], Head(pairs)[2]), Tail(pairs))

\* mutant: the running peaks are not replaced by the new peaks
BatchAppendStep_KeepsPeaks(st, new_leaf) ==
    LET new_node_indices == node_indices_added_by_append(st.current_leaf_count)
        appended == calculate_new_peaks_from_append(st.current_leaf_count,
                                                    st.current_peaks, new_leaf)
        new_nodes == ScanNewNodes(new_leaf, appended[2])
        recorded == RecordNodes(st, Zip(new_node_indices, new_nodes)
                                    \o Zip(st.current_peak_indices, st.current_peaks))
    IN  [recorded EXCEPT !.current_peak_indices =
                             get_peak_heights_and_peak_node_indices(st.current_leaf_count + 1)[2],
                         !.current_leaf_count = st.current_leaf_count + 1]

\* one iteration of `for &new_leaf in new_leafs` (lines 66-107)
BatchAppendStep(st, new_leaf) ==
    LET new_node_indices == node_indices_added_by_append(st.current_leaf_count)
        appended == calculate_new_peaks_from_append(st.current_leaf_count,
                                                    st.current_peaks, new_leaf)
        new_peaks == appended[1]
        authentication_path == appended[2]
        new_peak_indices ==
            get_peak_heights_and_peak_node_indices(st.current_leaf_count + 1)[2]
        new_nodes == ScanNewNodes(new_leaf, authentication_path)
        recorded == RecordNodes(st, Zip(new_node_indices, new_nodes)
                                    \o Zip(st.current_peak_indices, st.current_peaks))
    IN  [recorded EXCEPT !.current_peaks = new_peaks,
                         !.current_peak_indices = new_peak_indices,
                         !.current_leaf_count = st.current_leaf_count + 1]

RECURSIVE BatchAppendLoop(_, _)
BatchAppendLoop(st, leafs) ==
    IF leafs = <<>> THEN st
    ELSE BatchAppendLoop(BatchAppendStep(st, Head(leafs)), Tail(leafs))

\* the local state of new_from_batch_append when its loop has ended
BatchAppendFinal(mmra, leafs) ==
    LET old == get_peak_heights_and_peak_node_indices(mmra.num_leafs)
        heights_of_old_peaks == old[1]
        indices_of_old_peaks == old[2]
        indices_of_new_peaks ==
            get_peak_heights_and_peak_node_indices(mmra.num_leafs + Len(leafs))[2]
        needed_indices ==
            [i \in DOMAIN heights_of_old_peaks |->
                NeededSiblings(indices_of_old_peaks[i], heights_of_old_peaks[i],
                               indices_of_new_peaks)]
    IN  BatchAppendLoop(
            [current_peaks |-> mmra.peaks,
             current_peak_indices |-> indices_of_old_peaks,
             current_leaf_count |-> mmra.num_leafs,
             needed_indices |-> needed_indices,
             paths |-> [i \in DOMAIN needed_indices |->
                          [k \in DOMAIN needed_indices[i] |-> DigestDefault]]],
            leafs)

\* MmrSuccessorProof::new_from_batch_append: the proof's paths
new_from_batch_append(mmra, leafs) == BatchAppendFinal(mmra, leafs).paths

\* lines 144-153: hash the running node with each sibling of the path
RECURSIVE WalkPath(_, _, _, _)
WalkPath(path, current_node, current_merkle_tree_index, current_height) ==
    IF path = <<>> THEN <<current_node, current_height>>
    ELSE LET sibling == Head(path)
             is_left_sibling == current_merkle_tree_index % 2 = 0
         IN  WalkPath(Tail(path),
                      IF is_left_sibling THEN hash_pair(current_node, sibling)
                                         ELSE hash_pair(sibling, current_node),
                      current_merkle_tree_index \div 2,
                      current_height + 1)

\* mutant: the landing peak's digest is not compared
LandsOnPeak_AnyDigest(new_peaks, new_peak_heights, current_node, current_height, starting_peak_idx) ==
    \E landing_peak_idx \in 1..Min(Len(new_peaks), Len(new_peak_heights)) :
        /\ new_peak_heights[landing_peak_idx] = current_height
        /\ landing_peak_idx <= starting_peak_idx

\* mutant: the position of the landing peak is not compared
LandsOnPeak_AnyPosition(new_peaks, new_peak_heights, current_node, current_height, starting_peak_idx) ==
    \E landing_peak_idx \in 1..Min(Len(new_peaks), Len(new_peak_heights)) :
        /\ new_peaks[landing_peak_idx] = current_node
        /\ new_peak_heights[landing_peak_idx] = current_height

\* lines 154-163: the walk landed on a peak of the new accumulator
LandsOnPeak(new_peaks, new_peak_heights, current_node, current_height, starting_peak_idx) ==
    \E landing_peak_idx \in 1..Min(Len(new_peaks), Len(new_peak_heights)) :
        /\ new_peaks[landing_peak_idx] = current_node
        /\ new_peak_heights[landing_peak_idx] = current_height
        /\ landing_peak_idx <= starting_peak_idx

\* the `for` of lines 126-167, from old peak starting_peak_idx onwards
RECURSIVE VerifyPeaksFrom(_, _, _, _, _)
VerifyPeaksFrom(paths, old_mmra, new_mmra, starting_peak_idx, leaf_count_before) ==
    LET old_peak_heights == get_peak_heights(old_mmra.num_leafs)
    IN  IF starting_peak_idx > Min(Len(old_mmra.peaks), Len(old_peak_heights)) THEN TRUE
        ELSE
        LET old_height == old_peak_heights[starting_peak_idx]
            running_leaf_count == leaf_count_before + 2 ^ old_height
        IN  IF running_leaf_count > new_mmra.num_leafs THEN FALSE
            ELSE
            LET merkle_tree_index_of_last_leaf_under_this_peak ==
                    leaf_index_to_mt_index_and_peak_index(running_leaf_count - 1,
                                                          new_mmra.num_leafs)[1]
                landed == WalkPath(paths[starting_peak_idx],
                                   old_mmra.peaks[starting_peak_idx],
                                   merkle_tree_index_of_last_leaf_under_this_peak
                                       \div (2 ^ old_height),
                                   old_height)
            IN  IF ~LandsOnPeak(new_mmra.peaks, get_peak_heights(new_mmra.num_leafs),
                                landed[1], landed[2], starting_peak_idx)
                THEN FALSE
                ELSE VerifyPeaksFrom(paths, old_mmra, new_mmra,
                                     starting_peak_idx + 1, running_leaf_count)

\* mutant: no early return for an empty old accumulator
verify_NoEmptyCase(paths, old_mmra, new_mmra) ==
    IF Len(get_peak_heights(old_mmra.num_leafs)) # Len(paths) THEN FALSE
    ELSE VerifyPeaksFrom(paths, old_mmra, new_mmra, 1, 0)

\* MmrSuccessorProof::verify
verify(paths, old_mmra, new_mmra) ==
    IF old_mmra.num_leafs = 0 THEN TRUE
    ELSE IF Len(get_peak_heights(old_mmra.num_leafs)) # Len(paths) THEN FALSE
    ELSE VerifyPeaksFrom(paths, old_mmra, new_mmra, 1, 0)

(***************************************************************************)
(* Merkle tree (util_types/merkle_tree.rs).  A Blake3Hash is a digest      *)
(* term: the hash of the serialisation of leaf value v is the atom <<v>>,  *)
(* BLAKE3ZERO is <<0>>, and hashing two hashes one after the other gives   *)
(* the pair term.  Option<X> is a list: <<>> is None, <<x>> is Some(x).    *)
(***************************************************************************)
BLAKE3ZERO == <<0>>

\* Option<T>::None of a node's value; leaf values are positive
NoValue == 0

None == <<>>
Some(x) == <<x>>

\* blake3::hash(bincode::serialize(&value))
Blake3Leaf(value) == <<value>>

\* hasher.update(left); hasher.update(right); hasher.finalize()
Blake3Pair(left, right) == <<-1>> \o left \o right

Node(value, hash) == [value |-> value, hash |-> hash]

Xor1(i) == IF i % 2 = 0 THEN i + 1 ELSE i - 1

Bool(b) == IF b THEN "true" ELSE "false"

\* hash of node i of the tree over vals (leaf k is node Len(vals) + k)
RECURSIVE NodeHash(_, _)
NodeHash(vals, i) ==
    IF i >= Len(vals) THEN Blake3Leaf(vals[i - Len(vals) + 1])
    ELSE Blake3Pair(NodeHash(vals, 2 * i), NodeHash(vals, 2 * i + 1))

\* MerkleTree::from_vec; Len(vals) is a power of two
from_vec(vals) ==
    LET n == Len(vals)
        nodes == [i \in 0..(2 * n - 1) |->
                    IF i = 0 THEN Node(NoValue, BLAKE3ZERO)
                    ELSE IF i >= n THEN Node(vals[i - n + 1], NodeHash(vals, i))
                    ELSE Node(NoValue, NodeHash(vals, i))]
    IN  [root_hash |-> nodes[1].hash, nodes |-> nodes, height |-> ilog2(n) + 1]

\* MerkleTree::get_number_of_leafs: nodes.len() / 2
get_number_of_leafs(t) == Cardinality(DOMAIN t.nodes) \div 2

\* mutant: the node on the path is pushed instead of its sibling
RECURSIVE ProofSiblings_OwnNode(_, _)
ProofSiblings_OwnNode(t, index) ==
    IF index > 1 THEN <<t.nodes[index]>> \o ProofSiblings_OwnNode(t, index \div 2)
    ELSE <<>>

\* the `while index > 1` of get_proof
RECURSIVE ProofSiblings(_, _)
ProofSiblings(t, index) ==
    IF index > 1 THEN <<t.nodes[Xor1(index)]>> \o ProofSiblings(t, index \div 2)
    ELSE <<>>

\* MerkleTree::get_proof
get_proof(t, index) ==
    LET at == index + get_number_of_leafs(t)
    IN  <<t.nodes[at]>> \o ProofSiblings(t, at)

\* MerkleTree::get_authentication_path
RECURSIVE AuthPathFrom(_, _)
AuthPathFrom(t, i) ==
    IF i > 1 THEN <<t.nodes[Xor1(i)].hash>> \o AuthPathFrom(t, i \div 2)
    ELSE <<>>

get_authentication_path(t, index) == AuthPathFrom(t, index + get_number_of_leafs(t))

\* hash acc with the path's hashes bottom-up, the parity of i choosing sides
RECURSIVE HashUp(_, _, _)
HashUp(acc_hash, i, path) ==
    IF path = <<>> THEN acc_hash
    ELSE HashUp(IF i % 2 = 0 THEN Blake3Pair(acc_hash, Head(path))
                             ELSE Blake3Pair(Head(path), acc_hash),
                i \div 2, Tail(path))

\* mutant: the leaf's hash is not recomputed from its value
verify_proof_NoLeafCheck(root, index, prf) ==
    IF Len(prf) = 0 THEN "panic"
    ELSE IF prf[1].value = NoValue THEN "panic"
    ELSE Bool(HashUp(prf[1].hash, index + 2 ^ Len(prf),
                     [k \in 1..(Len(prf) - 1) |-> prf[k + 1].hash]) = root)

\* MerkleTree::verify_proof: "panic" where proof[0] or the unwrap of
\* proof[0].value aborts
verify_proof(root, index, prf) ==
    IF Len(prf) = 0 THEN "panic"
    ELSE LET mut_index == index + 2 ^ Len(prf)
             v_hash == HashUp(prf[1].hash, mut_index,
                              [k \in 1..(Len(prf) - 1) |-> prf[k + 1].hash])
         IN  IF prf[1].value = NoValue THEN "panic"
             ELSE Bool(v_hash = root /\ Blake3Leaf(prf[1].value) = prf[1].hash)

\* MerkleTree::verify_authentication_path
verify_authentication_path(root, index, value, auth_path) ==
    Bool(HashUp(Blake3Leaf(value), index + 2 ^ Len(auth_path), auth_path) = root)

\* MerkleTree::verify_authentication_path_dummy
verify_authentication_path_dummy(root, index, value, auth_path) ==
    verify_proof(root, index,
                 <<Node(value, Blake3Leaf(value))>>
                 \o [k \in DOMAIN auth_path |-> Node(NoValue, auth_path[k])])

\* PartialAuthenticationPath::get_value aborts on these paths
get_value_panics(path) ==
    Len(path) = 0 \/ path[1] = None \/ path[1][1].value = NoValue

\* PartialAuthenticationPath::get_value
get_value(path) == path[1][1].value

(***************************************************************************)
(* Compressed multi-proofs.  A HashSet<usize> is a set, the HashMap        *)
(* partial_tree a function from the node indices it holds to nodes.        *)
(***************************************************************************)
Max(S) == CHOOSE m \in S : \A x \in S : x <= m

\* keys.sort_by_key(|w| Reverse(*w))
RECURSIVE SortedReverse(_)
SortedReverse(S) ==
    IF S = {} THEN <<>> ELSE <<Max(S)>> \o SortedReverse(S \ {Max(S)})

Insert(map, key, node) == [k \in DOMAIN map \cup {key} |-> IF k = key THEN node ELSE map[k]]

\* get_multi_proof, lines 338-348: the leaf and every sibling of its path
RECURSIVE BranchIndices(_, _)
BranchIndices(index, steps) ==
    IF steps = 0 THEN {} ELSE {Xor1(index)} \cup BranchIndices(index \div 2, steps - 1)

\* one `for key in keys` pass of lines 357-365: (set, complete)
RECURSIVE CalculablePass(_, _, _)
CalculablePass(calculable_indices, keys, complete) ==
    IF keys = <<>> THEN <<calculable_indices, complete>>
    ELSE LET key == Head(keys)
         IN  IF /\ (key * 2) \in calculable_indices
                /\ (key * 2 + 1) \in calculable_indices
                /\ key \notin calculable_indices
             THEN CalculablePass(calculable_indices \cup {key}, Tail(keys), FALSE)
             ELSE CalculablePass(calculable_indices, Tail(keys), complete)

\* the `while !complete` of lines 350-366
RECURSIVE CalculableClosure(_)
CalculableClosure(calculable_indices) ==
    LET pass == CalculablePass(calculable_indices,
                               SortedReverse({x \div 2 : x \in calculable_indices}), TRUE)
    IN  IF pass[2] THEN pass[1] ELSE CalculableClosure(pass[1])

\* mutant: a sibling is pruned when it is in calculable_indices itself,
\* not when its two children are
RECURSIVE PruneBranch_SiblingCalculable(_, _, _, _, _, _, _)
PruneBranch_SiblingCalculable(branch, k, index, scanned, calculable_indices, idxs, n) ==
    IF k > Len(branch) THEN <<branch, scanned>>
    ELSE LET sibling == Xor1(index)
             pruned == \/ sibling \in calculable_indices
                       \/ /\ sibling - n > 0
                          /\ (sibling - n) \in Range(idxs)
                       \/ sibling \in scanned
         IN  PruneBranch_SiblingCalculable(
                 IF pruned THEN [branch EXCEPT ![k] = None] ELSE branch,
                 k + 1, index \div 2, scanned \cup {sibling},
                 calculable_indices, idxs, n)

\* lines 372-383 for one branch: prune the entries from position k on
RECURSIVE PruneBranch(_, _, _, _, _, _, _)
PruneBranch(branch, k, index, scanned, calculable_indices, idxs, n) ==
    IF k > Len(branch) THEN <<branch, scanned>>
    ELSE LET sibling == Xor1(index)
             pruned == \/ /\ (sibling * 2) \in calculable_indices
                          /\ (sibling * 2 + 1) \in calculable_indices
                       \/ /\ sibling - n > 0
                          /\ (sibling - n) \in Range(idxs)
                       \/ sibling \in scanned
         IN  PruneBranch(IF pruned THEN [branch EXCEPT ![k] = None] ELSE branch,
                         k + 1, index \div 2, scanned \cup {sibling},
                         calculable_indices, idxs, n)

\* lines 368-384: the branches from the i-th on, `scanned` carried along
RECURSIVE PruneBranches(_, _, _, _, _, _)
PruneBranches(output, i, scanned, calculable_indices, idxs, n) ==
    IF i > Len(idxs) THEN output
    ELSE LET index == n + idxs[i]
             done == PruneBranch(output[i], 2, index, scanned \cup {index},
                                 calculable_indices, idxs, n)
         IN  PruneBranches([output EXCEPT ![i] = done[1]], i + 1, done[2],
                           calculable_indices, idxs, n)

\* MerkleTree::get_multi_proof
get_multi_proof(t, idxs) ==
    LET n == get_number_of_leafs(t)
        output == [i \in DOMAIN idxs |->
                     LET p == get_proof(t, idxs[i]) IN [k \in DOMAIN p |-> Some(p[k])]]
        calculable_indices ==
            CalculableClosure(
                UNION {{n + idxs[i]} \cup BranchIndices(n + idxs[i], Len(output[i]) - 1) :
                         i \in DOMAIN idxs})
    IN  PruneBranches(output, 1, {}, calculable_indices, idxs, n)

\* verify_multi_proof, lines 266-271: insert the siblings present in a branch
RECURSIVE InsertBranch(_, _, _, _)
InsertBranch(partial_tree, branch, k, index) ==
    IF k > Len(branch) THEN partial_tree
    ELSE InsertBranch(IF branch[k] # None
                      THEN Insert(partial_tree, Xor1(index), branch[k][1])
                      ELSE partial_tree,
                      branch, k + 1, index \div 2)

\* lines 263-272, from the i-th (index, branch) pair on
RECURSIVE InsertBranches(_, _, _, _, _)
InsertBranches(partial_tree, idxs, prf, i, half_tree_size) ==
    IF i > Len(idxs) THEN partial_tree
    ELSE LET index == half_tree_size + idxs[i]
         IN  InsertBranches(
                 InsertBranch(Insert(partial_tree, index, prf[i][1][1]), prf[i], 2, index),
                 idxs, prf, i + 1, half_tree_size)

\* one `for key in keys` pass of lines 281-298: (partial_tree, complete)
RECURSIVE ReconstructPass(_, _, _)
ReconstructPass(partial_tree, keys, complete) ==
    IF keys = <<>> THEN <<partial_tree, complete>>
    ELSE LET key == Head(keys)
         IN  IF /\ (key * 2) \in DOMAIN partial_tree
                /\ (key * 2 + 1) \in DOMAIN partial_tree
                /\ key \notin DOMAIN partial_tree
             THEN ReconstructPass(
                      Insert(partial_tree, key,
                             Node(NoValue, Blake3Pair(partial_tree[key * 2].hash,
                                                      partial_tree[key * 2 + 1].hash))),
                      Tail(keys), FALSE)
             ELSE ReconstructPass(partial_tree, Tail(keys), complete)

\* the `while !complete` of lines 274-299
RECURSIVE Reconstruct(_)
Reconstruct(partial_tree) ==
    LET pass == ReconstructPass(partial_tree,
                                SortedReverse({x \div 2 : x \in DOMAIN partial_tree}), TRUE)
    IN  IF pass[2] THEN pass[1] ELSE Reconstruct(pass[1])

\* lines 303-316 for one branch: [ok, branch, partial_tree]
RECURSIVE FillBranch(_, _, _, _)
FillBranch(partial_tree, branch, k, index) ==
    IF k > Len(branch) THEN [ok |-> TRUE, branch |-> branch, partial_tree |-> partial_tree]
    ELSE LET sibling == Xor1(index)
         IN  IF branch[k] = None /\ sibling \notin DOMAIN partial_tree
             THEN [ok |-> FALSE, branch |-> branch, partial_tree |-> partial_tree]
             ELSE LET elem == IF branch[k] = None THEN Some(partial_tree[sibling])
                              ELSE branch[k]
                  IN  FillBranch(Insert(partial_tree, sibling, elem[1]),
                                 [branch EXCEPT ![k] = elem], k + 1, index \div 2)

\* lines 301-317, from the i-th pair on: [ok, proof_clone]
RECURSIVE FillBranches(_, _, _, _, _)
FillBranches(partial_tree, idxs, proof_clone, i, half_tree_size) ==
    IF i > Len(idxs) THEN [ok |-> TRUE, proof_clone |-> proof_clone]
    ELSE LET filled == FillBranch(partial_tree, proof_clone[i], 2,
                                  half_tree_size + idxs[i])
         IN  IF ~filled.ok THEN [ok |-> FALSE, proof_clone |-> proof_clone]
             ELSE FillBranches(filled.partial_tree, idxs,
                               [proof_clone EXCEPT ![i] = filled.branch],
                               i + 1, half_tree_size)

\* lines 319-332: verify_proof on each completed branch in turn
RECURSIVE VerifyBranches(_, _, _, _)
VerifyBranches(root, idxs, proof_clone, i) ==
    IF i > Len(idxs) THEN "true"
    ELSE LET proof_clone_unwrapped ==
                 [k \in DOMAIN proof_clone[i] |-> proof_clone[i][k][1]]
             one == verify_proof(root, idxs[i], proof_clone_unwrapped)
         IN  IF one = "true" THEN VerifyBranches(root, idxs, proof_clone, i + 1)
             ELSE one

\* MerkleTree::verify_multi_proof: "panic" where proof_clone[0], the
\* subtraction len - 1, b.0[0] or an unwrap aborts
verify_multi_proof(root, idxs, prf) ==
    IF Len(idxs) # Len(prf) THEN "false"
    ELSE IF Len(prf) = 0 THEN "panic"
    ELSE IF \E i \in DOMAIN prf : Len(prf[i]) = 0 \/ prf[i][1] = None THEN "panic"
    ELSE LET half_tree_size == 2 ^ (Len(prf[1]) - 1)
             partial_tree ==
                 Reconstruct(InsertBranches(<<>>, idxs, prf, 1, half_tree_size))
             filled == FillBranches(partial_tree, idxs, prf, 1, half_tree_size)
         IN  IF ~filled.ok THEN "false"
             ELSE VerifyBranches(root, idxs, filled.proof_clone, 1)

(***************************************************************************)
(* The MMR scenario: an accumulator old_mmr, leafs appended to it one by   *)
(* one, the successor proof for them, and calls of verify on honest,       *)
(* tampered and arbitrary inputs (the property tests of the module).       *)
(***************************************************************************)
\* every accumulator with len(peaks) = popcount(num_leafs), peaks arbitrary
WellFormedAccumulators ==
    UNION {{MmrAccumulator(peaks, n) : peaks \in [1..count_ones(n) -> Atoms]} :
             n \in 0..MaxOldLeafs}

MerkleIdle ==
    /\ values = <<>>
    /\ tree = <<>>
    /\ root_hash = <<>>
    /\ indices = <<>>
    /\ proof = <<>>
    /\ mt_scenario = "idle"
    /\ mt_verdict = "none"

InitMmr ==
    /\ old_mmr \in WellFormedAccumulators
    /\ new_leafs = <<>>
    /\ new_mmr = old_mmr
    /\ mmr_successor_proof = new_from_batch_append(old_mmr, <<>>)
    /\ mmr_scenario = "honest"
    /\ mmr_verified = verify(mmr_successor_proof, old_mmr, new_mmr)
    /\ MerkleIdle
    /\ Tip5Idle
    /\ PolyIdle
    /\ StorageIdle
    /\ TritonIdle

\* new_mmr.append(leaf); the proof is recomputed for all leafs appended so
\* far and verified against the grown accumulator
AppendLeaf(leaf) ==
    /\ mmr_scenario = "honest"
    /\ Len(new_leafs) < MaxNewLeafs
    /\ new_leafs' = Append(new_leafs, leaf)
    /\ new_mmr' = MmraAppend(new_mmr, leaf)
    /\ mmr_successor_proof' = new_from_batch_append(old_mmr, new_leafs')
    /\ mmr_verified' = verify(mmr_successor_proof', old_mmr, new_mmr')
    /\ UNCHANGED <<old_mmr, mmr_scenario, mtVars, tip5Vars, polyVars, dbVars, tritonVars>>

\* digests a forger may put into a path
ForgedDigests ==
    Atoms \cup {DigestDefault} \cup Range(new_mmr.peaks)
    \cup UNION {Range(mmr_successor_proof[i]) : i \in DOMAIN mmr_successor_proof}

\* "change one path element"
ModifyPathElement(path_index, node_index_along_path, digest) ==
    /\ mmr_scenario = "honest"
    /\ path_index \in DOMAIN mmr_successor_proof
    /\ node_index_along_path \in DOMAIN mmr_successor_proof[path_index]
    /\ digest # mmr_successor_proof[path_index][node_index_along_path]
    /\ mmr_successor_proof' =
          [mmr_successor_proof EXCEPT ![path_index][node_index_along_path] = digest]
    /\ mmr_scenario' = "path_modified"
    /\ mmr_verified' = verify(mmr_successor_proof', old_mmr, new_mmr)
    /\ UNCHANGED <<old_mmr, new_leafs, new_mmr, mtVars, tip5Vars, polyVars, dbVars, tritonVars>>

\* "new MMR has wrong num leafs": MmrAccumulator::init(new_mmr.peaks(), n)
FakeNewNumLeafs(fake_num_leafs) ==
    /\ mmr_scenario = "honest"
    /\ fake_num_leafs # new_mmr.num_leafs
    /\ new_mmr' = MmrAccumulator(new_mmr.peaks, fake_num_leafs)
    /\ mmr_scenario' = "fake_new_num_leafs"
    /\ mmr_verified' = verify(mmr_successor_proof, old_mmr, new_mmr')
    /\ UNCHANGED <<old_mmr, new_leafs, mmr_successor_proof, mtVars, tip5Vars, polyVars, dbVars, tritonVars>>

\* short lists over S
ShortSeqs(S, n) == UNION {[1..k -> S] : k \in 0..n}

\* verify called on an accumulator and a proof that need not be related to
\* old_mmr, nor be well-formed
VerifyArbitrary(any_mmr, any_paths) ==
    /\ mmr_scenario = "honest"
    /\ new_leafs = <<>>
    /\ new_mmr' = any_mmr
    /\ mmr_successor_proof' = any_paths
    /\ mmr_scenario' = "arbitrary"
    /\ mmr_verified' = verify(any_paths, old_mmr, any_mmr)
    /\ UNCHANGED <<old_mmr, new_leafs, mtVars, tip5Vars, polyVars, dbVars, tritonVars>>

NextMmr ==
    \/ \E leaf \in Atoms : AppendLeaf(leaf)
    \/ \E path_index \in DOMAIN mmr_successor_proof :
          \E node_index_along_path \in DOMAIN mmr_successor_proof[path_index],
             digest \in ForgedDigests :
               ModifyPathElement(path_index, node_index_along_path, digest)
    \/ \E fake_num_leafs \in 0..MaxFakeLeafs : FakeNewNumLeafs(fake_num_leafs)
    \/ \E peaks \in ShortSeqs(Atoms, 2), n \in 0..3,
          any_paths \in ShortSeqs(ShortSeqs(Atoms, 1), 2) :
            VerifyArbitrary(MmrAccumulator(peaks, n), any_paths)

SpecMmr == InitMmr /\ [][NextMmr]_vars

(***************************************************************************)
(* The Merkle scenario: a tree built by from_vec, then one call of the     *)
(* verifiers on an honest single-leaf proof or multi-proof, on a tampered  *)
(* one, or on a malformed one (the unit tests of the module).              *)
(***************************************************************************)
MmrIdle ==
    /\ old_mmr = MmrAccumulator(<<>>, 0)
    /\ new_leafs = <<>>
    /\ new_mmr = MmrAccumulator(<<>>, 0)
    /\ mmr_successor_proof = <<>>
    /\ mmr_scenario = "idle"
    /\ mmr_verified = TRUE

LeafCounts == {2 ^ h : h \in 0..ilog2(MaxLeafs)}

\* every list of n leaves over 1..NumValues, and the list 1, 2, .., n of
\* pairwise distinct leaves
LeafLists ==
    UNION {[1..n -> 1..NumValues] \cup {[k \in 1..n |-> k]} : n \in LeafCounts}

PairwiseDistinct(seq) == \A a, b \in DOMAIN seq : a # b => seq[a] # seq[b]

\* non-empty lists of at most MaxIndices pairwise distinct leaf indices
IndexLists(n) ==
    {idxs \in UNION {[1..k -> 0..(n - 1)] : k \in 1..Min(MaxIndices, n)} :
        PairwiseDistinct(idxs)}

\* hashes a forger may use: BLAKE3ZERO, leaf hashes and the tree's nodes
ForgedHashes ==
    {BLAKE3ZERO} \cup {Blake3Leaf(v) : v \in 1..(NumValues + 1)}
    \cup {tree.nodes[i].hash : i \in DOMAIN tree.nodes}

InitMerkle ==
    /\ values \in LeafLists
    /\ tree = from_vec(values)
    /\ root_hash = tree.root_hash
    /\ indices = <<>>
    /\ proof = <<>>
    /\ mt_scenario = "built"
    /\ mt_verdict = <<>>
    /\ MmrIdle
    /\ Tip5Idle
    /\ PolyIdle
    /\ StorageIdle
    /\ TritonIdle

\* get_proof(index) and get_authentication_path(index), checked by the
\* three single-leaf verifiers
VerifySingle(index) ==
    /\ mt_scenario = "built"
    /\ indices' = <<index>>
    /\ proof' = get_proof(tree, index)
    /\ mt_scenario' = "single"
    /\ mt_verdict' =
         LET auth_path == get_authentication_path(tree, index)
             value == values[index + 1]
         IN  <<verify_proof(root_hash, index, proof'),
               verify_authentication_path(root_hash, index, value, auth_path),
               verify_authentication_path_dummy(root_hash, index, value, auth_path)>>
    /\ UNCHANGED <<values, tree, root_hash, mmrVars, tip5Vars, polyVars, dbVars, tritonVars>>

\* verify_proof(root_hash, j, get_proof(i)) and verify_authentication_path
\* with the path of leaf i, at a claimed index j other than i; indices
\* becomes <<i, j>>
VerifyAtIndex(j) ==
    /\ mt_scenario = "single"
    /\ j # indices[1]
    /\ indices' = <<indices[1], j>>
    /\ mt_scenario' = "other_index"
    /\ mt_verdict' =
         <<verify_proof(root_hash, j, proof),
           verify_authentication_path(root_hash, j, values[indices[1] + 1],
                                      get_authentication_path(tree, indices[1]))>>
    /\ UNCHANGED <<values, tree, root_hash, proof, mmrVars, tip5Vars, polyVars, dbVars, tritonVars>>

\* mt.root_hash = <another hash>; verify_proof
TamperRoot(hash) ==
    /\ mt_scenario = "single"
    /\ hash # root_hash
    /\ root_hash' = hash
    /\ mt_scenario' = "tampered_root"
    /\ mt_verdict' = <<verify_proof(hash, indices[1], proof)>>
    /\ UNCHANGED <<values, tree, indices, proof, mmrVars, tip5Vars, polyVars, dbVars, tritonVars>>

\* proof[0].value = Some(<another value>); verify_proof
TamperLeafValue(value) ==
    /\ mt_scenario = "single"
    /\ value # proof[1].value
    /\ proof' = [proof EXCEPT ![1].value = value]
    /\ mt_scenario' = "tampered_value"
    /\ mt_verdict' = <<verify_proof(root_hash, indices[1], proof')>>
    /\ UNCHANGED <<values, tree, root_hash, indices, mmrVars, tip5Vars, polyVars, dbVars, tritonVars>>

\* proof[k].hash = <another hash>, the leaf (k = 1) or a sibling
TamperNodeHash(k, hash) ==
    /\ mt_scenario = "single"
    /\ k \in DOMAIN proof
    /\ hash # proof[k].hash
    /\ proof' = [proof EXCEPT ![k].hash = hash]
    /\ mt_scenario' = IF k = 1 THEN "tampered_leaf_hash" ELSE "tampered_sibling"
    /\ mt_verdict' = <<verify_proof(root_hash, indices[1], proof')>>
    /\ UNCHANGED <<values, tree, root_hash, indices, mmrVars, tip5Vars, polyVars, dbVars, tritonVars>>

\* get_multi_proof(indices); verify_multi_proof
VerifyMulti(idxs) ==
    /\ mt_scenario = "built"
    /\ indices' = idxs
    /\ proof' = get_multi_proof(tree, idxs)
    /\ mt_scenario' = "multi"
    /\ mt_verdict' = <<verify_multi_proof(root_hash, idxs, proof')>>
    /\ UNCHANGED <<values, tree, root_hash, mmrVars, tip5Vars, polyVars, dbVars, tritonVars>>

RemoveAt(seq, k) == SubSeq(seq, 1, k - 1) \o SubSeq(seq, k + 1, Len(seq))

InsertAt(seq, k, x) == SubSeq(seq, 1, k - 1) \o <<x>> \o SubSeq(seq, k, Len(seq))

\* indices_usize.insert(k, index); verify_multi_proof with the old proof
AddIndex(k, index) ==
    /\ mt_scenario = "multi"
    /\ k \in 1..(Len(indices) + 1)
    /\ indices' = InsertAt(indices, k, index)
    /\ mt_scenario' = "index_added"
    /\ mt_verdict' = <<verify_multi_proof(root_hash, indices', proof)>>
    /\ UNCHANGED <<values, tree, root_hash, proof, mmrVars, tip5Vars, polyVars, dbVars, tritonVars>>

\* indices_usize.remove(k); verify_multi_proof with the old proof
RemoveIndex(k) ==
    /\ mt_scenario = "multi"
    /\ k \in DOMAIN indices
    /\ indices' = RemoveAt(indices, k)
    /\ mt_scenario' = "index_removed"
    /\ mt_verdict' = <<verify_multi_proof(root_hash, indices', proof)>>
    /\ UNCHANGED <<values, tree, root_hash, proof, mmrVars, tip5Vars, polyVars, dbVars, tritonVars>>

\* indices_usize[k] = index; verify_multi_proof with the old proof
SubstituteIndex(k, index) ==
    /\ mt_scenario = "multi"
    /\ k \in DOMAIN indices
    /\ index # indices[k]
    /\ indices' = [indices EXCEPT ![k] = index]
    /\ mt_scenario' = "index_substituted"
    /\ mt_verdict' = <<verify_multi_proof(root_hash, indices', proof)>>
    /\ UNCHANGED <<values, tree, root_hash, proof, mmrVars, tip5Vars, polyVars, dbVars, tritonVars>>

\* verify_proof on a proof vector that is empty or whose leaf has no value
VerifyMalformedProof(index, malformed) ==
    /\ mt_scenario = "built"
    /\ malformed \in {<<>>, [get_proof(tree, index) EXCEPT ![1].value = NoValue]}
    /\ indices' = <<index>>
    /\ proof' = malformed
    /\ mt_scenario' = "malformed_proof"
    /\ mt_verdict' = <<verify_proof(root_hash, index, malformed)>>
    /\ UNCHANGED <<values, tree, root_hash, mmrVars, tip5Vars, polyVars, dbVars, tritonVars>>

\* multi-proofs a caller can hand to verify_multi_proof: no entries, an
\* empty path, a path whose first entry is None, a leaf without a value
MalformedMultiProofs(index) ==
    LET branch == [k \in DOMAIN get_proof(tree, index) |-> Some(get_proof(tree, index)[k])]
    IN  {<<<<>>, <<>>>>,
         <<<<index>>, <<<<>>>>>>,
         <<<<index>>, <<[branch EXCEPT ![1] = None]>>>>,
         <<<<index>>, <<[branch EXCEPT ![1] = Some(Node(NoValue, branch[1][1].hash))]>>>>}

VerifyMalformedMultiProof(idxs, malformed) ==
    /\ mt_scenario = "built"
    /\ indices' = idxs
    /\ proof' = malformed
    /\ mt_scenario' = "malformed_multi_proof"
    /\ mt_verdict' = <<verify_multi_proof(root_hash, idxs, malformed)>>
    /\ UNCHANGED <<values, tree, root_hash, mmrVars, tip5Vars, polyVars, dbVars, tritonVars>>

NextMerkle ==
    \/ \E index \in 0..(Len(values) - 1) : VerifySingle(index)
    \/ \E j \in 0..(2 * Len(values) - 1) : VerifyAtIndex(j)
    \/ \E hash \in ForgedHashes : TamperRoot(hash)
    \/ \E value \in 1..(NumValues + 1) : TamperLeafValue(value)
    \/ \E k \in DOMAIN proof, hash \in ForgedHashes : TamperNodeHash(k, hash)
    \/ /\ mt_scenario = "built"
       /\ \E idxs \in IndexLists(Len(values)) : VerifyMulti(idxs)
    \/ \E k \in 1..(Len(indices) + 1), index \in 0..(Len(values) - 1) : AddIndex(k, index)
    \/ \E k \in DOMAIN indices : RemoveIndex(k)
    \/ \E k \in DOMAIN indices, index \in 0..(2 * Len(values) - 1) : SubstituteIndex(k, index)
    \/ \E index \in 0..(Len(values) - 1) :
          \E malformed \in {<<>>, [get_proof(tree, index) EXCEPT ![1].value = NoValue]} :
             VerifyMalformedProof(index, malformed)
    \/ \E index \in 0..(Len(values) - 1) :
          \E m \in MalformedMultiProofs(index) : VerifyMalformedMultiProof(m[1], m[2])

SpecMerkle == InitMerkle /\ [][NextMerkle]_vars

(***************************************************************************)
(* Tip5 (shared_math/tip5.rs).                                             *)
(*                                                                         *)
(* A BFieldElement is its canonical 64-bit value, written as the four      *)
(* 16-bit limbs <<a, b, c, d>> the S-box splits it into (a the most        *)
(* significant).  The field's prime is p = 2^64 - 2^32 + 1.                *)
(*                                                                         *)
(* A Tip5State is [base, layers]: the 16 elements of base with the linear  *)
(* layers of layers applied to them, oldest first.  The MDS layer and the  *)
(* addition of round constants multiply and add 64-bit values; they are    *)
(* kept as symbols.  Each is a bijection of the state space, so the same   *)
(* layers on different bases are different states.                         *)
(***************************************************************************)
STATE_SIZE == 16
RATE == 10
NUM_ROUNDS == 7
DIGEST_LENGTH == 5

\* limbs of the sample field elements are 0..MaxSmallLimb and 0xffff
MaxSmallLimb == 2
\* hash_varlen is called on inputs of 0..MaxInputLen elements
MaxInputLen == 11

\* p = 0xffffffff00000001
LimbsGeP(v) == v[1] = 65535 /\ v[2] = 65535 /\ (v[3] > 0 \/ v[4] >= 1)

LimbsSubP(v) ==
    IF v[4] >= 1 THEN <<0, 0, v[3], v[4] - 1>> ELSE <<0, 0, v[3] - 1, 65535>>

\* BFieldElement::new(value): the value reduced modulo p
BFieldNew(v) == IF LimbsGeP(v) THEN LimbsSubP(v) ELSE v

BFieldZero == <<0, 0, 0, 0>>
BFieldOne == <<0, 0, 0, 1>>

\* <<carry, a, b, c, d>> of the 65-bit sum of two 64-bit values
AddLimbs(x, y) ==
    LET s4 == x[4] + y[4]
        s3 == x[3] + y[3] + (s4 \div 65536)
        s2 == x[2] + y[2] + (s3 \div 65536)
        s1 == x[1] + y[1] + (s2 \div 65536)
    IN  <<s1 \div 65536, s1 % 65536, s2 % 65536, s3 % 65536, s4 % 65536>>

\* x + y in the field; 2^64 = 2^32 - 1 modulo p
BFieldAdd(x, y) ==
    LET s == AddLimbs(x, y)
    IN  IF s[1] = 1
        THEN Tail(AddLimbs(Tail(s), <<0, 0, 65535, 65535>>))
        ELSE BFieldNew(Tail(s))

\* the u32 product a * b for a <= 2^16 and b < 2^16, as
\* <<product >> 16, product & 0xffff>>, formed from the two bytes of b
MulHiLo(a, b) ==
    LET u == a * (b \div 256)
        v == a * (b % 256)
        w == (u % 256) * 256 + v
    IN  <<(u \div 256) + (w \div 65536), w % 65536>>

fermat_cube_map(x) ==
    LET x2 == MulHiLo(x, x)
        x2hi == x2[1]
        x2lo == x2[2]
        x2p == x2lo + (IF x2lo < x2hi THEN 1 ELSE 0) * 65537 - x2hi
        x3 == MulHiLo(x2p, x)
        x3hi == x3[1]
        x3lo == x3[2]
    IN  x3lo + (IF x3lo < x3hi THEN 1 ELSE 0) * 65537 - x3hi

inverted_fermat_cube_map(x) == 65536 - fermat_cube_map(65535 - x)

\* sbox returns the new element; its argument is left as it is.
\* a_ and b_ may be 2^16: (a_ as u64) << 48 then drops bit 64 and
\* (b_ as u64) << 32 sets bit 48, the lowest bit of the top limb
sbox(element) ==
    LET a == element[1]
        b == element[2]
        c == element[3]
        d == element[4]
        a_ == inverted_fermat_cube_map(a)
        b_ == inverted_fermat_cube_map(b)
        c_ == fermat_cube_map(c)
        d_ == fermat_cube_map(d)
        a_low == a_ % 65536
        top == IF b_ \div 65536 = 1 /\ a_low % 2 = 0 THEN a_low + 1 ELSE a_low
    IN  BFieldNew(<<top, b_ % 65536, c_, d_>>)

\* Tip5State::new()
Tip5StateNew == [base |-> [i \in 1..STATE_SIZE |-> BFieldZero], layers |-> <<>>]

NoRound == 0 - 1
Layer(name, r, block) == [layer |-> name, round |-> r, block |-> block]

\* the MDS matrix applied to the state
mds_noswap(state) ==
    [state EXCEPT !.layers = Append(@, Layer("mds", NoRound, <<>>))]

\* state[i] += ROUND_CONSTANTS[round_index * STATE_SIZE + i]
AddRoundConstants(state, r) ==
    [state EXCEPT !.layers = Append(@, Layer("round_constants", r, <<>>))]

\* the S-box on each element, as the layer the MDS layer is to follow
SBoxLayer(state) == [state EXCEPT !.base = [i \in 1..STATE_SIZE |-> sbox(@[i])]]

\* round calls self.sbox(&mut sponge.state[i]) and drops what it returns:
\* sponge.state enters the MDS layer as it was
round(state, r) == AddRoundConstants(mds_noswap(state), r)

RECURSIVE Rounds(_, _)
Rounds(state, i) ==
    IF i = NUM_ROUNDS THEN state ELSE Rounds(round(state, i), i + 1)

permutation(state) == Rounds(state, 0)

\* state[i] += block[i] for the first RATE elements
Absorb(state, block) ==
    IF state.layers = <<>>
    THEN [state EXCEPT !.base =
            [i \in 1..STATE_SIZE |->
                IF i <= RATE THEN BFieldAdd(@[i], block[i]) ELSE @[i]]]
    ELSE [state EXCEPT !.layers = Append(@, Layer("absorb", NoRound, block))]

\* sponge.state[..5]
Squeeze(state) == [state |-> state, length |-> DIGEST_LENGTH]

RECURSIVE PadZeros(_)
PadZeros(padded_input) ==
    IF Len(padded_input) % RATE # 0
    THEN PadZeros(Append(padded_input, BFieldZero))
    ELSE padded_input

\* the variant that pads only when the length is no multiple of RATE
PadInput_OnlyWhenNeeded(input) ==
    IF Len(input) % RATE = 0 THEN input ELSE PadZeros(Append(input, BFieldOne))

PadInput(input) == PadZeros(Append(input, BFieldOne))

RECURSIVE AbsorbLoop(_, _, _)
AbsorbLoop(state, padded_input, absorbed) ==
    IF padded_input = <<>>
    THEN [state |-> state, absorbed |-> absorbed]
    ELSE AbsorbLoop(permutation(Absorb(state, SubSeq(padded_input, 1, RATE))),
                    SubSeq(padded_input, RATE + 1, Len(padded_input)),
                    absorbed + 1)

\* padded_input: the input after padding; absorbed: the blocks absorbed,
\* each with its permutation; digest: what hash_varlen returns
hash_varlen(input) ==
    LET padded_input == PadInput(input)
        run == AbsorbLoop(Tip5StateNew, padded_input, 0)
    IN  [padded_input |-> padded_input,
         absorbed |-> run.absorbed,
         digest |-> Squeeze(run.state)]

(***************************************************************************)
(* The Tip5 scenario: one call of the cube maps, of round or of            *)
(* hash_varlen.                                                            *)
(***************************************************************************)
SampleLimbs == (0..MaxSmallLimb) \cup {65535}

\* canonical field elements with limbs among SampleLimbs
SampleElements == {e \in [1..4 -> SampleLimbs] : ~LimbsGeP(e)}

\* states with one element everywhere, and with one element in front of zeros
SampleStates ==
    {[base |-> [i \in 1..STATE_SIZE |-> e], layers |-> <<>>] : e \in SampleElements}
    \cup {[base |-> [i \in 1..STATE_SIZE |-> IF i = 1 THEN e ELSE BFieldZero],
           layers |-> <<>>] : e \in SampleElements}

\* inputs of every length up to MaxInputLen: one element throughout, or
\* the elements 0, 1, 2, ..
SampleInputs ==
    UNION {{[i \in 1..n |-> <<0, 0, 0, v>>] : v \in 0..MaxSmallLimb}
           \cup {[i \in 1..n |-> <<0, 0, 0, i - 1>>]} : n \in 0..MaxInputLen}

InitTip5 ==
    /\ tip5_scenario = "start"
    /\ tip5_x = 0
    /\ tip5_cubes = <<>>
    /\ sponge_before = <<>>
    /\ round_index = 0
    /\ sponge = <<>>
    /\ hash_input = <<>>
    /\ hash_run = <<>>
    /\ MmrIdle
    /\ MerkleIdle
    /\ PolyIdle
    /\ StorageIdle
    /\ TritonIdle

CubeMaps(x) ==
    /\ tip5_scenario = "start"
    /\ tip5_scenario' = "cube_map"
    /\ tip5_x' = x
    /\ tip5_cubes' = <<fermat_cube_map(x), inverted_fermat_cube_map(x)>>
    /\ UNCHANGED <<sponge_before, round_index, sponge, hash_input, hash_run,
                   mmrVars, mtVars, polyVars, dbVars, tritonVars>>

Round(state, r) ==
    /\ tip5_scenario = "start"
    /\ tip5_scenario' = "round"
    /\ sponge_before' = state
    /\ round_index' = r
    /\ sponge' = round(state, r)
    /\ UNCHANGED <<tip5_x, tip5_cubes, hash_input, hash_run, mmrVars, mtVars,
                   polyVars, dbVars, tritonVars>>

HashVarlen(input) ==
    /\ tip5_scenario = "start"
    /\ tip5_scenario' = "hash_varlen"
    /\ hash_input' = input
    /\ hash_run' = hash_varlen(input)
    /\ UNCHANGED <<tip5_x, tip5_cubes, sponge_before, round_index, sponge,
                   mmrVars, mtVars, polyVars, dbVars, tritonVars>>

NextTip5 ==
    \/ /\ tip5_scenario = "start"
       /\ \E x \in 0..65535 : CubeMaps(x)
    \/ /\ tip5_scenario = "start"
       /\ \E state \in SampleStates : \E r \in 0..(NUM_ROUNDS - 1) : Round(state, r)
    \/ /\ tip5_scenario = "start"
       /\ \E input \in SampleInputs : HashVarlen(input)

SpecTip5 == InitTip5 /\ [][NextTip5]_vars

\* the values the cube maps take on {0, .., 2^16 - 1}
FermatCubeImage == {fermat_cube_map(x) : x \in 0..65535}
InvertedCubeImage == {inverted_fermat_cube_map(x) : x \in 0..65535}

(***************************************************************************)
(* Polynomial<PFElem> (shared_math/polynomial.rs).                         *)
(*                                                                         *)
(* PFElem is instantiated with the prime field of P = 257 elements, which  *)
(* has primitive roots of unity of every power-of-two order up to 256, so  *)
(* that the NTT branches of the code are taken.  A polynomial is its       *)
(* coefficient vector, lowest degree first, trailing zeros included.  A    *)
(* call that panics returns PolyPanic.                                     *)
(***************************************************************************)
P == 257
\* a generator of the multiplicative group of the field
FieldGenerator == 3

ring_zero == 0
ring_one == 1
FAdd(a, b) == (a + b) % P
FSub(a, b) == (a + P - b) % P
FNeg(a) == (P - a) % P
FMul(a, b) == (a * b) % P

RECURSIVE mod_pow_u32(_, _)
mod_pow_u32(a, e) ==
    IF e = 0 THEN 1
    ELSE LET half == mod_pow_u32(a, e \div 2)
             squared == FMul(half, half)
         IN  IF e % 2 = 1 THEN FMul(squared, a) ELSE squared

\* the inverse of a non-zero element
inverse(a) == mod_pow_u32(a, P - 2)
FDiv(a, b) == FMul(a, inverse(b))

\* Some(root) as <<root>>, None as <<>>
get_primitive_root_of_unity(order) ==
    IF order > 0 /\ (P - 1) % order = 0
    THEN <<mod_pow_u32(FieldGenerator, (P - 1) \div order)>>
    ELSE <<>>

RECURSIVE log_2_floor(_)
log_2_floor(n) == IF n <= 1 THEN 0 ELSE 1 + log_2_floor(n \div 2)

RECURSIVE roundup_npo2(_)
roundup_npo2(n) == IF n <= 1 THEN 1 ELSE 2 * roundup_npo2((n + 1) \div 2)

\* a function on 1..n as the sequence of its values
AsSeq(f) == SubSeq(f, 1, Len(f))

\* <<1, w, w^2, .., w^(n-1)>>
Powers(w, n) == AsSeq([i \in 1..n |-> mod_pow_u32(w, i - 1)])

RECURSIVE SumRange(_, _, _)
SumRange(terms, lo, hi) ==
    IF lo > hi THEN 0
    ELSE IF lo = hi THEN terms[lo]
    ELSE LET mid == (lo + hi) \div 2
         IN  FAdd(SumRange(terms, lo, mid), SumRange(terms, mid + 1, hi))

\* the sum of a sequence of field elements
FSum(terms) == SumRange(terms, 1, Len(terms))

\* ntt(x, omega, log_2_of_n): out[k] = sum_j x[j] * omega^(j k), in
\* natural order, on the first 2^log_2_of_n elements
ntt(x, omega, log_2_of_n) ==
    LET n == 2 ^ log_2_of_n
        powers == Powers(omega, n)
    IN  AsSeq([k \in 1..n |->
            FSum([j \in 1..n |-> FMul(x[j], powers[(((j - 1) * (k - 1)) % n) + 1])])])

\* intt: ntt with the inverse root, scaled by 1 / n
intt(x, omega, log_2_of_n) ==
    LET n == 2 ^ log_2_of_n
        n_inv == inverse(n % P)
        transformed == ntt(x, inverse(omega), log_2_of_n)
    IN  AsSeq([k \in 1..n |-> FMul(transformed[k], n_inv)])

PolyPanic == <<0 - 1>>

\* -1 for the zero polynomial
degree_raw(coefficients) ==
    LET non_zero == {i \in DOMAIN coefficients : coefficients[i] # 0}
    IN  IF non_zero = {} THEN 0 - 1
        ELSE (CHOOSE m \in non_zero : \A i \in non_zero : i <= m) - 1

degree(self) == degree_raw(self)

\* the coefficients left by normalize
Normalized(self) == SubSeq(self, 1, degree(self) + 1)

is_zero(self) == self = <<>> \/ \A i \in DOMAIN self : self[i] = 0

\* PartialEq::eq
PolyEq(self, other) ==
    /\ degree(self) = degree(other)
    /\ \A i \in 1..Min(Len(self), Len(other)) : self[i] = other[i]

\* Horner scheme from the highest coefficient down
RECURSIVE EvaluateFrom(_, _, _, _)
EvaluateFrom(self, x, acc, i) ==
    IF i = 0 THEN acc ELSE EvaluateFrom(self, x, FAdd(self[i], FMul(x, acc)), i - 1)

evaluate(self, x) == EvaluateFrom(self, x, ring_zero, Len(self))

\* coefficient i scaled by alpha^i
scale(self, alpha) ==
    LET powers == Powers(alpha, Len(self))
    IN  AsSeq([i \in 1..Len(self) |-> FMul(self[i], powers[i])])

\* zip_longest: Both(l, r) => l + r, Left(l) => l, Right(r) => r
add(self, other) ==
    AsSeq([i \in 1..(IF Len(self) > Len(other) THEN Len(self) ELSE Len(other)) |->
        IF i <= Len(self) /\ i <= Len(other) THEN FAdd(self[i], other[i])
        ELSE IF i <= Len(self) THEN self[i]
        ELSE other[i]])

\* zip_longest: Both(l, r) => l - r, Left(l) => l, Right(r) => zero - r
sub(self, other) ==
    AsSeq([i \in 1..(IF Len(self) > Len(other) THEN Len(self) ELSE Len(other)) |->
        IF i <= Len(self) /\ i <= Len(other) THEN FSub(self[i], other[i])
        ELSE IF i <= Len(self) THEN self[i]
        ELSE FSub(ring_zero, other[i])])

\* schoolbook product on the coefficients up to the degrees
multiply(self, other) ==
    LET degree_lhs == degree(self)
        degree_rhs == degree(other)
    IN  IF degree_lhs < 0 \/ degree_rhs < 0
        THEN <<>>
        ELSE AsSeq([k \in 1..(degree_lhs + degree_rhs + 1) |->
                FSum([i \in 1..(degree_lhs + 1) |->
                        LET j == k + 1 - i
                        IN  IF j >= 1 /\ j <= degree_rhs + 1
                            THEN FMul(self[i], other[j])
                            ELSE 0])])

Reverse(s) == AsSeq([i \in 1..Len(s) |-> s[Len(s) + 1 - i]])

\* one pass of the while loop of divide: the next quotient coefficient is
\* taken off the end of the remainder
RECURSIVE DivideLoop(_, _, _, _, _, _, _)
DivideLoop(i, quotient, remainder, divisor, degree_lhs, degree_rhs, inv) ==
    IF i + degree_rhs > degree_lhs
    THEN <<Reverse(quotient), remainder>>
    ELSE LET rlc == remainder[Len(remainder)]
             q == FMul(rlc, inv)
             popped == SubSeq(remainder, 1, Len(remainder) - 1)
             rem_length == Len(popped)
             reduced ==
                AsSeq([pos \in 1..rem_length |->
                    IF pos > rem_length - degree_rhs
                    THEN FSub(popped[pos],
                              FMul(q, divisor[degree_rhs - (rem_length - pos)]))
                    ELSE popped[pos]])
         IN  DivideLoop(i + 1, Append(quotient, q),
                        IF q = 0 THEN popped ELSE reduced,
                        divisor, degree_lhs, degree_rhs, inv)

\* divide, with the remainder starting from the given copy of self
DivideWith(remainder, self, divisor) ==
    LET degree_lhs == degree(self)
        degree_rhs == degree(divisor)
    IN  IF degree_rhs < 0 THEN <<PolyPanic, PolyPanic>>
        ELSE IF is_zero(self) THEN <<<<>>, <<>>>>
        ELSE LET dlc == divisor[degree_rhs + 1]
                 inv == FDiv(ring_one, dlc)
             IN  DivideLoop(0, <<>>, remainder, divisor, degree_lhs, degree_rhs, inv)

\* the variant that leaves out remainder.normalize()
divide_Unnormalized(self, divisor) == DivideWith(self, self, divisor)

\* <<quotient, remainder>>
divide(self, divisor) == DivideWith(Normalized(self), self, divisor)

Div(self, other) == divide(self, other)[1]
Rem(self, other) == divide(self, other)[2]

\* the loop shared by slow_square and square: squared_coefficients has
\* 2 * degree + 1 entries and is indexed by 2 * i and i + j for every
\* i < j below coefficients.len(); an index beyond its end panics
SquareCoefficients(self) ==
    LET len == Len(self)
        squared_coefficient_len == degree(self) * 2 + 1
        two == FAdd(ring_one, ring_one)
        out_of_bounds ==
            \E i \in 0..(len - 1) :
                \/ 2 * i >= squared_coefficient_len
                \/ \E j \in (i + 1)..(len - 1) : i + j >= squared_coefficient_len
    IN  IF out_of_bounds THEN PolyPanic
        ELSE AsSeq([k \in 1..squared_coefficient_len |->
                FSum([i \in 1..len |->
                        LET j == k + 1 - i
                        IN  IF j = i THEN FMul(self[i], self[i])
                            ELSE IF j > i /\ j <= len
                            THEN FMul(FMul(two, self[i]), self[j])
                            ELSE 0])])

slow_square(self) ==
    IF degree(self) = 0 - 1 THEN <<>> ELSE SquareCoefficients(self)

\* Vec::resize and Vec::truncate
Resize(coefficients, new_len) ==
    AsSeq([i \in 1..new_len |->
             IF i <= Len(coefficients) THEN coefficients[i] ELSE ring_zero])

fast_square(self) ==
    LET result_degree == 2 * degree(self)
        order == roundup_npo2(result_degree + 1)
        root_res == get_primitive_root_of_unity(order)
        root == root_res[1]
        log_2_of_n == log_2_floor(order)
        codeword == ntt(Resize(self, order), root, log_2_of_n)
        squared == AsSeq([i \in 1..order |-> FMul(codeword[i], codeword[i])])
    IN  IF degree(self) = 0 - 1 THEN <<>>
        ELSE IF degree(self) = 0 THEN <<FMul(self[1], self[1])>>
        ELSE IF root_res = <<>> THEN PolyPanic
        ELSE SubSeq(intt(squared, root, log_2_of_n), 1, result_degree + 1)

square(self) ==
    IF degree(self) = 0 - 1 THEN <<>>
    ELSE IF degree(self) * 2 + 1 > 64 THEN fast_square(self)
    ELSE SquareCoefficients(self)

\* while degree < order / 2 { root *= root; order /= 2; }, as <<root, order>>
RECURSIVE HalveOrder(_, _, _)
HalveOrder(deg, root, order) ==
    IF deg < order \div 2
    THEN HalveOrder(deg, FMul(root, root), order \div 2)
    ELSE <<root, order>>

\* while coefficients.len() < order { coefficients.push(zero) }
PushZeros(coefficients, order) ==
    IF Len(coefficients) < order THEN Resize(coefficients, order) ELSE coefficients

\* the two assertions on primitive_root and root_order
RootAssertionsHold(primitive_root, root_order) ==
    /\ mod_pow_u32(primitive_root, root_order) = 1
    /\ mod_pow_u32(primitive_root, root_order \div 2) # 1

\* ntt on the whole vector
NttOf(coefficients, root) == ntt(coefficients, root, log_2_floor(Len(coefficients)))

\* the element-wise product of two codewords, transformed back
InverseOfProduct(lhs_codeword, rhs_codeword, root) ==
    LET hadamard_product ==
            AsSeq([i \in 1..Min(Len(lhs_codeword), Len(rhs_codeword)) |->
                    FMul(rhs_codeword[i], lhs_codeword[i])])
    IN  intt(hadamard_product, root, log_2_floor(Len(hadamard_product)))

\* truncate(degree + 1)
Truncate(coefficients, new_len) ==
    SubSeq(coefficients, 1, Min(Len(coefficients), new_len))

\* the product on the evaluation domain left by the halving loop, halved
\* being <<root, order>>
NttMultiply(lhs, rhs, lhs_degree, rhs_degree, halved) ==
    Truncate(InverseOfProduct(
                NttOf(PushZeros(SubSeq(lhs, 1, lhs_degree + 1), halved[2]), halved[1]),
                NttOf(PushZeros(SubSeq(rhs, 1, rhs_degree + 1), halved[2]), halved[1]),
                halved[1]),
             lhs_degree + rhs_degree + 1)

fast_multiply(lhs, rhs, primitive_root, root_order) ==
    IF ~RootAssertionsHold(primitive_root, root_order) THEN PolyPanic
    ELSE IF is_zero(lhs) \/ is_zero(rhs) THEN <<>>
    ELSE IF degree(lhs) + degree(rhs) < 8 THEN multiply(lhs, rhs)
    ELSE NttMultiply(lhs, rhs, degree(lhs), degree(rhs),
                     HalveOrder(degree(lhs) + degree(rhs), primitive_root, root_order))

\* batch_inversion panics on a zero
HasZero(elements) == \E i \in DOMAIN elements : elements[i] = 0

fast_coset_divide(lhs, rhs, offset, primitive_root, root_order) ==
    IF ~RootAssertionsHold(primitive_root, root_order) THEN PolyPanic
    ELSE IF is_zero(rhs) THEN PolyPanic
    ELSE IF is_zero(lhs) THEN <<>>
    ELSE IF degree(rhs) > degree(lhs) THEN PolyPanic
    ELSE LET deg == degree(lhs)
             halved == HalveOrder(deg, primitive_root, root_order)
             root == halved[1]
             order == halved[2]
             scaled_lhs == scale(lhs, offset)
             scaled_rhs == scale(rhs, offset)
             \* order - len as usize: a longer vector underflows
             underflow == Len(scaled_lhs) > order \/ Len(scaled_rhs) > order
             lhs_codeword == ntt(Resize(scaled_lhs, order), root, log_2_floor(order))
             rhs_codeword == ntt(Resize(scaled_rhs, order), root, log_2_floor(order))
             quotient_codeword ==
                AsSeq([i \in 1..order |-> FDiv(lhs_codeword[i], rhs_codeword[i])])
             scaled_quotient == intt(quotient_codeword, root, log_2_floor(order))
         IN  IF deg < 8 THEN Div(lhs, rhs)
             ELSE IF underflow THEN PolyPanic
             ELSE IF HasZero(rhs_codeword) THEN PolyPanic
             ELSE IF offset = 0 THEN PolyPanic
             ELSE scale(scaled_quotient, FDiv(ring_one, offset))

\* one pass of the loop over the domain: the array times (X - d), on its
\* first num_coeffs + 1 entries
ZerofierStep(zerofier_array, d, num_coeffs) ==
    AsSeq([k \in 1..Len(zerofier_array) |->
        IF k = 1 THEN FMul(FNeg(d), zerofier_array[1])
        ELSE IF k - 1 <= num_coeffs
        THEN FSub(zerofier_array[k - 1], FMul(d, zerofier_array[k]))
        ELSE zerofier_array[k]])

\* zerofier_array after the first i points of the domain
RECURSIVE ZerofierArray(_, _)
ZerofierArray(domain, i) ==
    IF i = 0
    THEN AsSeq([k \in 1..(Len(domain) + 1) |-> IF k = 1 THEN ring_one ELSE ring_zero])
    ELSE ZerofierStep(ZerofierArray(domain, i - 1), domain[i], i)

\* the variant whose inner loop stops one coefficient early
zerofier_ShortLoop(domain) ==
    IF domain = <<>> THEN PolyPanic
    ELSE LET array == ZerofierArray(domain, Len(domain) - 1)
         IN  ZerofierStep(array, domain[Len(domain)], Len(domain) - 1)

zerofier(domain) ==
    IF domain = <<>> THEN PolyPanic ELSE ZerofierArray(domain, Len(domain))

\* Polynomial::prod_helper: the coefficients of the product of (x - q) over
\* the roots q of input, highest degree first; the while loop reads
\* rec[i - 1] before it is overwritten
RECURSIVE prod_helper(_)
prod_helper(input) ==
    IF input = <<>> THEN PolyPanic
    ELSE LET q_j == Head(input)
             elements == Tail(input)
         IN  IF elements = <<>> THEN <<ring_one, FSub(ring_zero, q_j)>>
             ELSE LET rec == Append(prod_helper(elements), ring_zero)
                  IN  AsSeq([i \in 1..Len(rec) |->
                          IF i = 1 THEN rec[1]
                          ELSE FSub(rec[i], FMul(q_j, rec[i - 1]))])

\* Polynomial::get_polynomial_with_roots
get_polynomial_with_roots(roots, one) ==
    IF one # ring_one THEN PolyPanic
    ELSE IF roots = <<>> THEN <<one>>
    ELSE Reverse(prod_helper(roots))

\* Hash::hash for Polynomial: the data fed to the hasher, which is what
\* Vec::hash feeds for the coefficient vector, its length and then each
\* element
hash(self) == <<Len(self)>> \o self

\* summand_array[k]: the zerofier divided by (X - x), highest coefficient
\* first
RECURSIVE SummandCoefficient(_, _, _)
SummandCoefficient(zerofier_array, x, k) ==
    IF k = Len(zerofier_array) - 1
    THEN zerofier_array[k + 1]
    ELSE FAdd(zerofier_array[k + 1],
              FMul(SummandCoefficient(zerofier_array, x, k + 1), x))

SummandArray(zerofier_array, x) ==
    AsSeq([k \in 1..(Len(zerofier_array) - 1) |->
             SummandCoefficient(zerofier_array, x, k)])

\* ys[i] / offsets[i]
Targets(ys, offsets) ==
    AsSeq([i \in 1..Len(ys) |-> FDiv(ys[i], offsets[i])])

\* the variant that leaves out the division by summand_eval
lagrange_interpolate_Unweighted(domain, ys) ==
    IF Len(domain) # Len(ys) \/ domain = <<>> THEN PolyPanic
    ELSE LET zerofier_array == ZerofierArray(domain, Len(domain))
             summands ==
                AsSeq([i \in 1..Len(domain) |-> SummandArray(zerofier_array, domain[i])])
         IN  AsSeq([j \in 1..Len(domain) |->
                FSum([i \in 1..Len(domain) |-> FMul(ys[i], summands[i][j])])])

lagrange_interpolate(domain, ys) ==
    IF Len(domain) # Len(ys) \/ domain = <<>> THEN PolyPanic
    ELSE LET zerofier_array == ZerofierArray(domain, Len(domain))
             summands ==
                AsSeq([i \in 1..Len(domain) |-> SummandArray(zerofier_array, domain[i])])
             summand_evals ==
                AsSeq([i \in 1..Len(domain) |-> evaluate(summands[i], domain[i])])
             \* abscis / summand_eval
             corrected == Targets(ys, summand_evals)
         IN  IF HasZero(summand_evals) THEN PolyPanic
             ELSE AsSeq([j \in 1..Len(domain) |->
                    FSum([i \in 1..Len(domain) |-> FMul(corrected[i], summands[i][j])])])

\* the two halves domain[..half] and domain[half..]
LeftHalf(list) == SubSeq(list, 1, Len(list) \div 2)
RightHalf(list) == SubSeq(list, (Len(list) \div 2) + 1, Len(list))

\* a panic while an operand is computed ends the whole call
MultiplyOrPanic(lhs, rhs, primitive_root, root_order) ==
    IF lhs = PolyPanic \/ rhs = PolyPanic THEN PolyPanic
    ELSE fast_multiply(lhs, rhs, primitive_root, root_order)

AppendOrPanic(left, right) ==
    IF left = PolyPanic \/ right = PolyPanic THEN PolyPanic ELSE left \o right

AddOrPanic(left_term, right_term) ==
    IF left_term = PolyPanic \/ right_term = PolyPanic THEN PolyPanic
    ELSE add(left_term, right_term)

RECURSIVE fast_zerofier(_, _, _)
fast_zerofier(domain, primitive_root, root_order) ==
    IF mod_pow_u32(primitive_root, root_order) # 1 THEN PolyPanic
    ELSE IF domain = <<>> THEN <<>>
    ELSE IF Len(domain) = 1 THEN <<FNeg(domain[1]), ring_one>>
    ELSE IF mod_pow_u32(primitive_root, root_order \div 2) = 1 THEN PolyPanic
    ELSE MultiplyOrPanic(fast_zerofier(LeftHalf(domain), primitive_root, root_order),
                         fast_zerofier(RightHalf(domain), primitive_root, root_order),
                         primitive_root, root_order)

RECURSIVE fast_evaluate(_, _, _, _)
\* (self % zerofier).fast_evaluate(half of the domain, ..)
RECURSIVE EvaluateRemainder(_, _, _, _, _)
EvaluateRemainder(self, zerofier_of_half, half_domain, primitive_root, root_order) ==
    IF zerofier_of_half = PolyPanic THEN PolyPanic
    ELSE fast_evaluate(Rem(self, zerofier_of_half), half_domain,
                       primitive_root, root_order)

fast_evaluate(self, domain, primitive_root, root_order) ==
    IF domain = <<>> THEN <<>>
    ELSE IF Len(domain) = 1 THEN <<evaluate(self, domain[1])>>
    ELSE AppendOrPanic(
            EvaluateRemainder(self,
                fast_zerofier(LeftHalf(domain), primitive_root, root_order),
                LeftHalf(domain), primitive_root, root_order),
            EvaluateRemainder(self,
                fast_zerofier(RightHalf(domain), primitive_root, root_order),
                RightHalf(domain), primitive_root, root_order))

RECURSIVE fast_interpolate(_, _, _, _)
\* one of left_term and right_term: the interpolant through the targets of
\* one half of the domain, times the zerofier of the other half
RECURSIVE InterpolantTerm(_, _, _, _, _, _)
InterpolantTerm(half_domain, half_ys, offsets, other_zerofier, primitive_root, root_order) ==
    IF offsets = PolyPanic THEN PolyPanic
    ELSE IF HasZero(offsets) THEN PolyPanic
    ELSE MultiplyOrPanic(
            fast_interpolate(half_domain, Targets(half_ys, offsets),
                             primitive_root, root_order),
            other_zerofier, primitive_root, root_order)

\* fast_interpolate once the zerofiers of the two halves are there
RECURSIVE InterpolateHalves(_, _, _, _, _, _)
InterpolateHalves(domain, ys, left_zerofier, right_zerofier, primitive_root, root_order) ==
    IF left_zerofier = PolyPanic \/ right_zerofier = PolyPanic THEN PolyPanic
    ELSE AddOrPanic(
            InterpolantTerm(LeftHalf(domain), LeftHalf(ys),
                fast_evaluate(right_zerofier, LeftHalf(domain),
                              primitive_root, root_order),
                right_zerofier, primitive_root, root_order),
            InterpolantTerm(RightHalf(domain), RightHalf(ys),
                fast_evaluate(left_zerofier, RightHalf(domain),
                              primitive_root, root_order),
                left_zerofier, primitive_root, root_order))

fast_interpolate(domain, ys, primitive_root, root_order) ==
    IF Len(domain) # Len(ys) THEN PolyPanic
    ELSE IF mod_pow_u32(primitive_root, root_order) # 1 THEN PolyPanic
    ELSE IF domain = <<>> THEN PolyPanic
    ELSE IF Len(domain) = 1 THEN <<ys[1]>>
    ELSE InterpolateHalves(domain, ys,
            fast_zerofier(LeftHalf(domain), primitive_root, root_order),
            fast_zerofier(RightHalf(domain), primitive_root, root_order),
            primitive_root, root_order)

\* the bits of pow, most significant first
RECURSIVE Bits(_)
Bits(pow) == IF pow = 0 THEN <<>> ELSE Append(Bits(pow \div 2), pow % 2)

\* the loop over the bits of pow: acc is squared, then multiplied by self
\* when the bit is set; mod_pow squares with slow_square and multiplies
\* from the right, fast_mod_pow squares with square and multiplies from
\* the left
RECURSIVE SquareAndMultiply(_, _, _, _, _)
SquareAndMultiply(self, acc, bits, i, fast) ==
    IF i > Len(bits) \/ acc = PolyPanic THEN acc
    ELSE LET squared == IF fast THEN square(acc) ELSE slow_square(acc)
             next == IF squared = PolyPanic THEN PolyPanic
                     ELSE IF bits[i] = 0 THEN squared
                     ELSE IF fast THEN multiply(self, squared)
                     ELSE multiply(squared, self)
         IN  SquareAndMultiply(self, next, bits, i + 1, fast)

\* the variant that looks at the base before it looks at the exponent
mod_pow_BaseFirst(self, pow) ==
    IF is_zero(self) THEN <<>>
    ELSE IF pow = 0 THEN <<ring_one>>
    ELSE SquareAndMultiply(self, <<ring_one>>, Bits(pow), 1, FALSE)

mod_pow(self, pow) ==
    IF pow = 0 THEN <<ring_one>>
    ELSE IF is_zero(self) THEN <<>>
    ELSE SquareAndMultiply(self, <<ring_one>>, Bits(pow), 1, FALSE)

fast_mod_pow(self, pow) ==
    IF pow = 0 THEN <<ring_one>>
    ELSE IF is_zero(self) THEN <<>>
    ELSE IF pow = 1 THEN self
    ELSE SquareAndMultiply(self, <<ring_one>>, Bits(pow), 1, TRUE)

(***************************************************************************)
(* The Polynomial scenario: a first argument is drawn, then one operation  *)
(* of Polynomial is called on it and on further sample arguments.          *)
(***************************************************************************)
\* coefficient vectors of dividends have at most MaxPolyLen entries, those
\* of divisors at most MaxDivisorLen
MaxPolyLen == 4
MaxDivisorLen == 2
\* factors of fast products have up to MaxFactorLen coefficients
MaxFactorLen == 8
\* the longest coefficient vectors have MinLongLen..MaxLongLen entries;
\* the square of one of MinLongLen entries has more than 64
MinLongLen == 33
MaxLongLen == 33
\* roots of unity have order 1, 2, 4, .. up to 2^MaxLogOrder
MaxLogOrder == 4
\* NumRoots primitive roots are tried for every order
NumRoots == 2
\* exponents of mod_pow are 0..MaxPow, as long as the power has a degree of
\* at most MaxPowDegree
MaxPow == 5
MaxPowDegree == 70

SampleCoefficients == {0, 2, P - 1}

\* every coefficient vector of at most n entries, trailing zeros included
CoefficientLists(n) == UNION {[1..k -> SampleCoefficients] : k \in 0..n}

\* coefficient vectors of lo..hi entries: all ones, 1, 2, 3, .. and a
\* single leading one, each also with one trailing zero
LongLists(lo, hi) ==
    UNION {LET ones == [i \in 1..k |-> 1]
               ramp == [i \in 1..k |-> i % P]
               power == [i \in 1..k |-> IF i = k THEN 1 ELSE 0]
           IN  {ones, ramp, power, Append(ones, 0), Append(ramp, 0), Append(power, 0)} :
           k \in lo..hi}

FactorLists == CoefficientLists(2) \cup LongLists(MaxFactorLen - 1, MaxFactorLen)

\* second factors and divisors
DivisorLists ==
    CoefficientLists(MaxDivisorLen) \cup LongLists(MaxFactorLen, MaxFactorLen)

SampleLists ==
    CoefficientLists(MaxPolyLen) \cup FactorLists \cup LongLists(MinLongLen, MaxLongLen)

RootOrders == {2 ^ k : k \in 0..MaxLogOrder}

\* primitive n-th roots of unity: odd powers of the one the field hands out
PrimitiveRoots(n) ==
    {mod_pow_u32(get_primitive_root_of_unity(n)[1], 2 * t - 1) :
        t \in 1..(IF n <= 2 THEN 1 ELSE Min(NumRoots, n \div 2))}

\* the subgroup generated by w
Subgroup(w, n) == {mod_pow_u32(w, k) : k \in 0..(n - 1)}

\* offsets: zero and the generator of the field
SampleOffsets == {0, FieldGenerator}

\* lists of values of the length of a domain
ValueLists(k) == {ys \in SampleLists : Len(ys) = k}

\* pairwise distinct entries
Distinct(list) == \A i, j \in DOMAIN list : i # j => list[i] # list[j]

NoArgs ==
    [lhs |-> <<>>, rhs |-> <<>>, pow |-> 0, offset |-> 0,
     primitive_root |-> 0, root_order |-> 0]

InitPoly ==
    /\ poly_op = "start"
    /\ \E a \in SampleLists : poly_args = [NoArgs EXCEPT !.lhs = a]
    /\ poly_result = <<>>
    /\ MmrIdle
    /\ MerkleIdle
    /\ Tip5Idle
    /\ StorageIdle
    /\ TritonIdle

\* self.divide(b)
Divide(b) ==
    /\ poly_op = "start"
    /\ poly_op' = "divide"
    /\ poly_args' = [poly_args EXCEPT !.rhs = b]
    /\ poly_result' = divide(poly_args.lhs, b)
    /\ UNCHANGED <<mmrVars, mtVars, tip5Vars, dbVars, tritonVars>>

Square ==
    /\ poly_op = "start"
    /\ poly_op' = "square"
    /\ poly_result' = [square |-> square(poly_args.lhs),
                       slow_square |-> slow_square(poly_args.lhs),
                       fast_square |-> fast_square(poly_args.lhs)]
    /\ UNCHANGED <<poly_args, mmrVars, mtVars, tip5Vars, dbVars, tritonVars>>

FastMultiply(b, w, n) ==
    /\ poly_op = "start"
    /\ poly_op' = "fast_multiply"
    /\ poly_args' = [poly_args EXCEPT !.rhs = b, !.primitive_root = w, !.root_order = n]
    /\ poly_result' = fast_multiply(poly_args.lhs, b, w, n)
    /\ UNCHANGED <<mmrVars, mtVars, tip5Vars, dbVars, tritonVars>>

\* fast_coset_divide(a * b, b, offset, w, n)
FastCosetDivide(b, offset, w, n) ==
    /\ poly_op = "start"
    /\ poly_op' = "fast_coset_divide"
    /\ poly_args' = [poly_args EXCEPT !.rhs = b, !.offset = offset,
                                      !.primitive_root = w, !.root_order = n]
    /\ poly_result' = fast_coset_divide(multiply(poly_args.lhs, b), b, offset, w, n)
    /\ UNCHANGED <<mmrVars, mtVars, tip5Vars, dbVars, tritonVars>>

\* lagrange_interpolate(xs, ys) and fast_interpolate(xs, ys, w, n), the
\* domain being the first argument
Interpolate(ys, w, n) ==
    /\ poly_op = "start"
    /\ poly_op' = "interpolate"
    /\ poly_args' = [poly_args EXCEPT !.rhs = ys, !.primitive_root = w, !.root_order = n]
    /\ poly_result' = [lagrange_interpolate |-> lagrange_interpolate(poly_args.lhs, ys),
                       fast_interpolate |-> fast_interpolate(poly_args.lhs, ys, w, n)]
    /\ UNCHANGED <<mmrVars, mtVars, tip5Vars, dbVars, tritonVars>>

\* zerofier(D) and fast_zerofier(D, w, n), D being the first argument
Zerofier(w, n) ==
    /\ poly_op = "start"
    /\ poly_op' = "zerofier"
    /\ poly_args' = [poly_args EXCEPT !.primitive_root = w, !.root_order = n]
    /\ poly_result' = [zerofier |-> zerofier(poly_args.lhs),
                       fast_zerofier |-> fast_zerofier(poly_args.lhs, w, n)]
    /\ UNCHANGED <<mmrVars, mtVars, tip5Vars, dbVars, tritonVars>>

\* get_polynomial_with_roots(D, 1) and fast_zerofier(D, w, n), D being the
\* first argument, the empty domain included
WithRoots(w, n) ==
    /\ poly_op = "start"
    /\ poly_op' = "with_roots"
    /\ poly_args' = [poly_args EXCEPT !.primitive_root = w, !.root_order = n]
    /\ poly_result' = [get_polynomial_with_roots |->
                           get_polynomial_with_roots(poly_args.lhs, ring_one),
                       fast_zerofier |-> fast_zerofier(poly_args.lhs, w, n)]
    /\ UNCHANGED <<mmrVars, mtVars, tip5Vars, dbVars, tritonVars>>

\* self == b and the data Hash::hash feeds for each of the two
HashBoth(b) ==
    /\ poly_op = "start"
    /\ poly_op' = "hash"
    /\ poly_args' = [poly_args EXCEPT !.rhs = b]
    /\ poly_result' = [eq |-> PolyEq(poly_args.lhs, b),
                       hash_lhs |-> hash(poly_args.lhs),
                       hash_rhs |-> hash(b)]
    /\ UNCHANGED <<mmrVars, mtVars, tip5Vars, dbVars, tritonVars>>

ModPow(pow) ==
    /\ poly_op = "start"
    /\ poly_op' = "mod_pow"
    /\ poly_args' = [poly_args EXCEPT !.pow = pow]
    /\ poly_result' = [mod_pow |-> mod_pow(poly_args.lhs, pow),
                       fast_mod_pow |-> fast_mod_pow(poly_args.lhs, pow)]
    /\ UNCHANGED <<mmrVars, mtVars, tip5Vars, dbVars, tritonVars>>

NextPoly ==
    \/ /\ poly_op = "start"
       /\ Len(poly_args.lhs) <= MaxPolyLen
       /\ \E b \in CoefficientLists(MaxDivisorLen) : Divide(b)
    \/ Square
    \/ /\ poly_op = "start"
       /\ poly_args.lhs \in FactorLists
       /\ \E b \in DivisorLists : \E n \in RootOrders : \E w \in PrimitiveRoots(n) :
            /\ degree(poly_args.lhs) + degree(b) < n
            /\ FastMultiply(b, w, n)
    \/ /\ poly_op = "start"
       /\ poly_args.lhs \in FactorLists
       /\ \E b \in DivisorLists \cup {<<FieldGenerator, 1>>} :
            \E n \in RootOrders : \E w \in PrimitiveRoots(n) :
              \E offset \in SampleOffsets \ Subgroup(w, n) :
                /\ ~is_zero(b)
                /\ degree(multiply(poly_args.lhs, b)) < n
                /\ FastCosetDivide(b, offset, w, n)
    \/ /\ poly_op = "start"
       /\ poly_args.lhs # <<>>
       /\ Len(poly_args.lhs) <= MaxFactorLen + 1
       /\ Distinct(poly_args.lhs)
       /\ \E ys \in ValueLists(Len(poly_args.lhs)) :
            \E n \in RootOrders : \E w \in PrimitiveRoots(n) :
              /\ n >= Len(poly_args.lhs)
              /\ Interpolate(ys, w, n)
    \/ /\ poly_op = "start"
       /\ poly_args.lhs # <<>>
       /\ Len(poly_args.lhs) <= MaxFactorLen + 1
       /\ Distinct(poly_args.lhs)
       /\ \E n \in RootOrders : \E w \in PrimitiveRoots(n) :
              /\ n > Len(poly_args.lhs)
              /\ Zerofier(w, n)
    \/ /\ poly_op = "start"
       /\ Len(poly_args.lhs) <= MaxPolyLen
       /\ Distinct(poly_args.lhs)
       /\ \E n \in RootOrders : \E w \in PrimitiveRoots(n) :
              /\ n > Len(poly_args.lhs)
              /\ WithRoots(w, n)
    \/ /\ poly_op = "start"
       /\ Len(poly_args.lhs) <= MaxPolyLen
       /\ \E b \in CoefficientLists(MaxDivisorLen) : HashBoth(b)
    \/ /\ poly_op = "start"
       /\ \E pow \in 0..MaxPow :
              /\ degree(poly_args.lhs) * pow <= MaxPowDegree
              /\ ModPow(pow)

SpecPoly == InitPoly /\ [][NextPoly]_vars

(***************************************************************************)
(* Claims about the MMR successor proof.                                   *)
(***************************************************************************)
\* C1: for every well-formed old accumulator and every list of appended
\* leafs (the empty list included), the proof made by new_from_batch_append
\* verifies against the old accumulator and the one grown by the appends.
C1_HonestProofVerifies == mmr_scenario = "honest" => mmr_verified = TRUE

C1_Witness ==
    /\ mmr_scenario = "honest"
    /\ old_mmr.num_leafs = 5
    /\ Len(new_leafs) = 3
    /\ \E i \in DOMAIN mmr_successor_proof : Len(mmr_successor_proof[i]) >= 2
    /\ mmr_verified = TRUE

\* C2: with a non-empty old accumulator, replacing one digest of one path
\* of the honest proof by a different digest makes verify return false.
C2_ModifiedPathRejected ==
    (mmr_scenario = "path_modified" /\ old_mmr.num_leafs # 0) => mmr_verified = FALSE

C2_Witness ==
    /\ mmr_scenario = "path_modified"
    /\ old_mmr.num_leafs = 3
    /\ Len(new_leafs) = 2
    /\ mmr_verified = FALSE

\* C3: with a non-empty old accumulator, verify returns false for every
\* accumulator that has the peaks of the honest successor but another
\* leaf count.
C3_FakeNumLeafsRejected ==
    (mmr_scenario = "fake_new_num_leafs" /\ old_mmr.num_leafs # 0) => mmr_verified = FALSE

\* C4: verify returns true whenever the old accumulator is empty, whatever
\* the new accumulator and the proof are.
C4_EmptyOldAccepted == old_mmr.num_leafs = 0 => mmr_verified = TRUE

C4_Witness ==
    /\ mmr_scenario = "arbitrary"
    /\ old_mmr.num_leafs = 0
    /\ Len(mmr_successor_proof) = 2
    /\ Len(new_mmr.peaks) # count_ones(new_mmr.num_leafs)
    /\ mmr_verified = TRUE

\* C5: appends keep len(peaks) = popcount(num_leafs) and each append adds
\* exactly one leaf, both for the accumulator and for the running peaks and
\* leaf count of new_from_batch_append's loop.
C5_AppendInvariant ==
    mmr_scenario = "honest" =>
        LET final == BatchAppendFinal(old_mmr, new_leafs)
        IN  /\ new_mmr.num_leafs = old_mmr.num_leafs + Len(new_leafs)
            /\ Len(new_mmr.peaks) = count_ones(new_mmr.num_leafs)
            /\ final.current_leaf_count = old_mmr.num_leafs + Len(new_leafs)
            /\ Len(final.current_peaks) = count_ones(final.current_leaf_count)
            /\ final.current_peaks = new_mmr.peaks

C5_Witness ==
    /\ mmr_scenario = "honest"
    /\ old_mmr.num_leafs = 0
    /\ Len(new_leafs) = 3
    /\ new_mmr.num_leafs = 3
    /\ Len(new_mmr.peaks) = 2

(***************************************************************************)
(* Claims about the Merkle tree.                                           *)
(***************************************************************************)
\* C6: for a tree over n = 2^h leaves and every index i < n, get_proof(i)
\* has h + 1 nodes, its first node carries leaf i, and verify_proof,
\* verify_authentication_path and verify_authentication_path_dummy all
\* return true.
C6_SingleProofVerifies ==
    mt_scenario = "single" =>
        /\ Len(proof) = ilog2(Len(values)) + 1
        /\ proof[1].value = values[indices[1] + 1]
        /\ mt_verdict = <<"true", "true", "true">>

C6_Witness ==
    /\ mt_scenario = "single"
    /\ Len(values) = 4
    /\ indices = <<2>>
    /\ Len(proof) = 3
    /\ mt_verdict = <<"true", "true", "true">>

\* C7: changing the root hash, the leaf value of p[0], the leaf hash of
\* p[0] or the hash of a sibling node of p = get_proof(i) to a different
\* value makes verify_proof return false.
C7_TamperedProofRejected ==
    mt_scenario \in {"tampered_root", "tampered_value", "tampered_leaf_hash",
                     "tampered_sibling"}
        => mt_verdict = <<"false">>

C7_Witness ==
    /\ mt_scenario = "tampered_sibling"
    /\ Len(values) = 4
    /\ proof[3].hash # get_proof(tree, indices[1])[3].hash
    /\ mt_verdict = <<"false">>

\* C8: for every non-empty list I of pairwise distinct leaf indices, in
\* any order, verify_multi_proof(root, I, get_multi_proof(I)) returns true
\* and the k-th entry's get_value() is the leaf at I[k].
C8_MultiProofVerifies ==
    mt_scenario = "multi" =>
        /\ mt_verdict = <<"true">>
        /\ \A k \in DOMAIN indices :
              /\ ~get_value_panics(proof[k])
              /\ get_value(proof[k]) = values[indices[k] + 1]

C8_Witness ==
    /\ mt_scenario = "multi"
    /\ Len(values) = 4
    /\ indices = <<3, 0, 1>>
    /\ \E k \in DOMAIN proof : \E j \in DOMAIN proof[k] : proof[k][j] = None
    /\ mt_verdict = <<"true">>

\* C9: for a tree with pairwise distinct leaves, verify_multi_proof returns
\* false on the proof for I and an index list made from I by adding an
\* index, removing an index or substituting an index by a different value.
C9_PerturbedIndicesRejected ==
    (/\ mt_scenario \in {"index_added", "index_removed", "index_substituted"}
     /\ PairwiseDistinct(values))
        => mt_verdict = <<"false">>

\* C10: verify_proof and verify_multi_proof never panic: on every input
\* they return a boolean.
C10_VerifiersNeverPanic == \A k \in DOMAIN mt_verdict : mt_verdict[k] # "panic"

(***************************************************************************)
(* Claims about Tip5.                                                      *)
\* the leafs under the first s old peaks
RECURSIVE LeafsUnderPeaks(_, _)
LeafsUnderPeaks(heights, s) ==
    IF s = 0 THEN 0 ELSE 2 ^ heights[s] + LeafsUnderPeaks(heights, s - 1)

\* <<node, height>> at the end of the walk from old peak s along path s of
\* the proof
WalkEnd(s) ==
    LET old_peak_heights == get_peak_heights(old_mmr.num_leafs)
        running_leaf_count == LeafsUnderPeaks(old_peak_heights, s)
        last_leaf == leaf_index_to_mt_index_and_peak_index(running_leaf_count - 1,
                                                           new_mmr.num_leafs)[1]
    IN  WalkPath(mmr_successor_proof[s], old_mmr.peaks[s],
                 last_leaf \div (2 ^ old_peak_heights[s]), old_peak_heights[s])

\* the positions of the new peaks that have the digest and the height of
\* the end of the walk from old peak s
LandingPositions(s) ==
    LET new_peak_heights == get_peak_heights(new_mmr.num_leafs)
    IN  {l \in 1..Min(Len(new_mmr.peaks), Len(new_peak_heights)) :
            /\ new_mmr.peaks[l] = WalkEnd(s)[1]
            /\ new_peak_heights[l] = WalkEnd(s)[2]}

\* the old peaks a call of verify that returned true has walked from
WalkedPeaks ==
    IF mmr_verified = TRUE /\ old_mmr.num_leafs > 0
    THEN 1..Min(Len(old_mmr.peaks), Len(get_peak_heights(old_mmr.num_leafs)))
    ELSE {}

\* C24 as stated: verify accepts only if every walk ends at a new peak of
\* the walk's final height whose position is at or to the right of the
\* starting peak's position (landing index >= starting index).
C24_LandsAtOrRightOfStart ==
    \A s \in WalkedPeaks : \E l \in LandingPositions(s) : l >= s

\* C24 amended: verify accepts only if every walk ends at a new peak of the
\* walk's final height whose position is at or to the left of the starting
\* peak's position (landing index <= starting index).
C24_LandsAtOrLeftOfStart ==
    \A s \in WalkedPeaks : \E l \in LandingPositions(s) : l <= s

\* an honest proof is accepted and a walk lands strictly to the left
C24_Witness ==
    /\ mmr_scenario = "honest"
    /\ mmr_verified = TRUE
    /\ \E s \in WalkedPeaks : LandingPositions(s) # {} /\ \A l \in LandingPositions(s) : l < s

\* the node whose entry is at position k >= 2 of the branch of leaf index:
\* the sibling of the (k - 2)-th ancestor of the leaf
SiblingAt(n, index, k) == Xor1((n + index) \div (2 ^ (k - 2)))

\* node can be computed from the nodes of known: it is one of them, or both
\* of its children can be computed
RECURSIVE Derivable(_, _, _)
Derivable(known, node, n) ==
    \/ node \in known
    \/ /\ node < n
       /\ Derivable(known, 2 * node, n)
       /\ Derivable(known, 2 * node + 1, n)

\* the queried leaves and the siblings present in the multi-proof, the
\* entry at position k of branch i left out
KnownElsewhere(n, i, k) ==
    {n + indices[j] : j \in DOMAIN indices}
    \cup {SiblingAt(n, indices[e[1]], e[2]) :
            e \in {f \in (DOMAIN proof) \X (2..(Len(proof[1]))) :
                      /\ f # <<i, k>>
                      /\ proof[f[1]][f[2]] # None}}

\* C25: in get_multi_proof(I), for every list I of distinct valid indices
\* in any order, a sibling entry is None if and only if the sibling can be
\* computed from the queried leaves and the digests present elsewhere in
\* the multi-proof; the sibling of a queried leaf that is itself a queried
\* leaf is None, leaf 0 included.
C25_AbsentIffReconstructible ==
    mt_scenario = "multi" =>
        LET n == Len(values)
        IN  \A i \in DOMAIN proof : \A k \in 2..Len(proof[i]) :
                (proof[i][k] = None) <=> Derivable(KnownElsewhere(n, i, k),
                                                   SiblingAt(n, indices[i], k), n)

\* C27: a single-leaf proof is bound to its leaf index: with pairwise
\* distinct leaf values, verify_proof(root, j, get_proof(i)) and
\* verify_authentication_path at index j with the path of leaf i return
\* true only if j = i, for every unsigned j, j >= n included.
C27_ProofBoundToIndex ==
    (mt_scenario = "other_index" /\ PairwiseDistinct(values)) =>
        \A k \in DOMAIN mt_verdict :
            mt_verdict[k] = "true" => indices[2] = indices[1]

(***************************************************************************)
\* C11: after round(state, r) the state is the MDS layer applied to the
\* S-box of every element of the state before, plus the round constants
\* of round r: the S-box output is what enters the MDS layer.
C11_RoundAppliesSbox ==
    tip5_scenario = "round" =>
        sponge = AddRoundConstants(mds_noswap(SBoxLayer(sponge_before)), round_index)

\* C12: fermat_cube_map and inverted_fermat_cube_map each map
\* {0, .., 2^16 - 1} onto itself, fermat_cube_map(0) = 0 and
\* inverted_fermat_cube_map(2^16 - 1) = 2^16 - 1.
C12_CubeMapsArePermutations ==
    tip5_scenario = "cube_map" =>
        /\ tip5_cubes[1] \in 0..65535
        /\ tip5_x \in FermatCubeImage
        /\ tip5_cubes[2] \in 0..65535
        /\ tip5_x \in InvertedCubeImage
        /\ (tip5_x = 0 => tip5_cubes[1] = 0)
        /\ (tip5_x = 65535 => tip5_cubes[2] = 65535)

\* C13: hash_varlen appends a single 1 and the fewest zeros that make the
\* length a multiple of RATE, at least one element in every case; it
\* absorbs floor(L / RATE) + 1 blocks, each added into state[0..RATE) and
\* followed by one permutation, and returns state[0..5).
C13_HashVarlenAlwaysPads ==
    tip5_scenario = "hash_varlen" =>
        LET L == Len(hash_input)
            zeros == (RATE - ((L + 1) % RATE)) % RATE
            padded == hash_input \o <<BFieldOne>> \o [i \in 1..zeros |-> BFieldZero]
            blocks == (L \div RATE) + 1
            after[k \in 0..blocks] ==
                IF k = 0
                THEN Tip5StateNew
                ELSE permutation(Absorb(after[k - 1],
                                        SubSeq(padded, (k - 1) * RATE + 1, k * RATE)))
            layers == hash_run.digest.state.layers
        IN  /\ hash_run.padded_input = padded
            /\ Len(hash_run.padded_input) > L
            /\ hash_run.absorbed = blocks
            /\ Cardinality({i \in DOMAIN layers : layers[i].layer = "mds"})
                 = NUM_ROUNDS * blocks
            /\ hash_run.digest = [state |-> after[blocks], length |-> 5]

C13_Witness ==
    /\ tip5_scenario = "hash_varlen"
    /\ Len(hash_input) = RATE
    /\ Len(hash_run.padded_input) = 2 * RATE
    /\ hash_run.absorbed = 2

(***************************************************************************)
(* Claims about Polynomial.  Equality of polynomials is equality of the    *)
(* coefficient vectors without their trailing zeros; the products and sums *)
(* the claims speak of are the convolution and the coefficient-wise sum.   *)
(***************************************************************************)
Coefficient(p, i) == IF i >= 1 /\ i <= Len(p) THEN p[i] ELSE 0

\* sum over i + j = k of a_i b_j, on the whole vectors
Convolution(a, b) ==
    IF a = <<>> \/ b = <<>> THEN <<>>
    ELSE AsSeq([k \in 1..(Len(a) + Len(b) - 1) |->
            FSum([i \in 1..Len(a) |-> FMul(a[i], Coefficient(b, k + 1 - i))])])

CoefficientSum(a, b) ==
    AsSeq([k \in 1..(IF Len(a) > Len(b) THEN Len(a) ELSE Len(b)) |->
        FAdd(Coefficient(a, k), Coefficient(b, k))])

SamePolynomial(a, b) == Normalized(a) = Normalized(b)

\* C14: for every a and every non-zero b, with or without trailing zeros,
\* divide(a, b) = (q, r) with a = q * b + r and deg(r) < deg(b), and q and
\* r are the polynomials divide returns for the normalised operands.
C14_DivisionIdentity ==
    (poly_op = "divide" /\ ~is_zero(poly_args.rhs)) =>
        LET a == poly_args.lhs
            b == poly_args.rhs
            q == poly_result[1]
            r == poly_result[2]
            normalised == divide(Normalized(a), Normalized(b))
        IN  /\ SamePolynomial(CoefficientSum(Convolution(q, b), r), a)
            /\ degree(r) < degree(b)
            /\ SamePolynomial(q, normalised[1])
            /\ SamePolynomial(r, normalised[2])

C14_Witness ==
    /\ poly_op = "divide"
    /\ poly_args.lhs = <<2, 0, 2, 0>>
    /\ poly_args.rhs = <<P - 1, 2>>
    /\ poly_result[1] # <<>>
    /\ ~is_zero(poly_result[2])


\* C15: for every coefficient vector p, trailing zeros included, square,
\* slow_square and fast_square each return the product p * p.
C15_SquaresAgree ==
    poly_op = "square" =>
        LET p == poly_args.lhs
            expected == Convolution(p, p)
        IN  /\ poly_result.square # PolyPanic
            /\ poly_result.slow_square # PolyPanic
            /\ poly_result.fast_square # PolyPanic
            /\ SamePolynomial(poly_result.square, expected)
            /\ SamePolynomial(poly_result.slow_square, expected)
            /\ SamePolynomial(poly_result.fast_square, expected)


\* C16: for all a and b, every power-of-two n and every primitive n-th root
\* of unity w with deg(a) + deg(b) < n, fast_multiply(a, b, w, n) is the
\* product a * b, the zero polynomial when a or b is zero.
C16_FastMultiplyIsProduct ==
    poly_op = "fast_multiply" =>
        /\ poly_result # PolyPanic
        /\ SamePolynomial(poly_result, Convolution(poly_args.lhs, poly_args.rhs))

\* C17: for all a and b with b # 0 and deg(a * b) < n, every primitive
\* n-th root of unity w and every offset outside the subgroup generated by
\* w, fast_coset_divide(a * b, b, offset, w, n) is a.
C17_CosetDivideIsExact ==
    poly_op = "fast_coset_divide" =>
        /\ poly_result # PolyPanic
        /\ SamePolynomial(poly_result, poly_args.lhs)

\* C18: for pairwise distinct x_1..x_k, k >= 1, arbitrary y_1..y_k and a
\* primitive root w of power-of-two order n >= k, lagrange_interpolate and
\* fast_interpolate return equal polynomials of degree below k that take
\* the value y_i at every x_i.
C18_InterpolantsAgree ==
    poly_op = "interpolate" =>
        LET xs == poly_args.lhs
            ys == poly_args.rhs
            slow == poly_result.lagrange_interpolate
            fast == poly_result.fast_interpolate
        IN  /\ slow # PolyPanic
            /\ fast # PolyPanic
            /\ PolyEq(slow, fast)
            /\ degree(slow) < Len(xs)
            /\ degree(fast) < Len(xs)
            /\ \A i \in DOMAIN xs :
                    /\ evaluate(slow, xs[i]) = ys[i]
                    /\ evaluate(fast, xs[i]) = ys[i]

C18_Witness ==
    /\ poly_op = "interpolate"
    /\ Len(poly_args.lhs) = MaxFactorLen + 1
    /\ poly_args.root_order = 16
    /\ degree(poly_result.fast_interpolate) = MaxFactorLen
    /\ poly_result.lagrange_interpolate # PolyPanic

\* C19: for a non-empty list D of pairwise distinct field elements and a
\* primitive root w of power-of-two order n > |D|, zerofier(D) and
\* fast_zerofier(D, w, n) are equal, monic, of degree |D|, and zero at
\* exactly the elements of D.
C19_ZerofiersAgree ==
    poly_op = "zerofier" =>
        LET D == poly_args.lhs
            slow == poly_result.zerofier
            fast == poly_result.fast_zerofier
            Elements == {D[i] : i \in DOMAIN D}
            IsZerofier(z) ==
                /\ z # PolyPanic
                /\ degree(z) = Len(D)
                /\ z[degree(z) + 1] = 1
                /\ \A x \in 0..(P - 1) : (evaluate(z, x) = 0) <=> (x \in Elements)
        IN  /\ IsZerofier(slow)
            /\ IsZerofier(fast)
            /\ PolyEq(slow, fast)

C19_Witness ==
    /\ poly_op = "zerofier"
    /\ Len(poly_args.lhs) = MaxFactorLen
    /\ poly_args.root_order = 16
    /\ degree(poly_result.fast_zerofier) = MaxFactorLen
    /\ poly_result.zerofier # PolyPanic

\* the k-fold product of p, starting from the constant 1
RECURSIVE KFoldProduct(_, _)
KFoldProduct(p, k) ==
    IF k = 0 THEN <<1>> ELSE Convolution(KFoldProduct(p, k - 1), p)

\* C20: for every p and every k >= 0, mod_pow(p, k) and fast_mod_pow(p, k)
\* are the k-fold product of p starting from the constant 1; for k = 0
\* that is the constant 1, also when p is the zero polynomial.
C20_ModPowIsKFoldProduct ==
    poly_op = "mod_pow" =>
        LET expected == KFoldProduct(poly_args.lhs, poly_args.pow)
        IN  /\ poly_result.mod_pow # PolyPanic
            /\ poly_result.fast_mod_pow # PolyPanic
            /\ SamePolynomial(poly_result.mod_pow, expected)
            /\ SamePolynomial(poly_result.fast_mod_pow, expected)
            /\ poly_args.pow = 0 =>
                    /\ SamePolynomial(poly_result.mod_pow, <<1>>)
                    /\ SamePolynomial(poly_result.fast_mod_pow, <<1>>)

C20_Witness ==
    /\ poly_op = "mod_pow"
    /\ poly_args.pow = 2
    /\ Len(poly_args.lhs) = MinLongLen + 1
    /\ degree(poly_args.lhs) = MinLongLen - 1
    /\ degree(poly_result.fast_mod_pow) = 2 * (MinLongLen - 1)


\* C26: fast_zerofier on the empty domain returns the constant polynomial
\* 1, the result get_polynomial_with_roots returns for the empty root list.
C26_EmptyDomainZerofierIsOne ==
    (poly_op = "with_roots" /\ poly_args.lhs = <<>>) =>
        /\ PolyEq(poly_result.fast_zerofier, <<ring_one>>)
        /\ PolyEq(poly_result.fast_zerofier, poly_result.get_polynomial_with_roots)

\* C30: Hash agrees with PartialEq: whenever a == b, Hash::hash feeds the
\* hasher identical data for a and for b.
C30_EqualPolynomialsHashAlike ==
    (poly_op = "hash" /\ poly_result.eq) =>
        poly_result.hash_lhs = poly_result.hash_rhs

(***************************************************************************)
(* DbtVec, DbtSingleton and SimpleRustyStorage                             *)
(* (util_types/storage_schema.rs).                                         *)
(*                                                                         *)
(* The database is the set of its <<key, value>> pairs, keys and values    *)
(* being byte vectors.  The element type T is the tests' S(Vec<u8>), whose *)
(* conversions to and from RustyValue copy the bytes.  A u64 is kept as    *)
(* the integer of least absolute value in its residue class modulo 2^64,   *)
(* so that 0 - 1 stands for u64::MAX and wrapping arithmetic is integer    *)
(* arithmetic.  A call that panics returns StoragePanic, get returns the   *)
(* element NoElement.                                                      *)
(***************************************************************************)
StoragePanic == [panic |-> TRUE]
NoElement == <<0 - 1>>

\* a < b on u64
ULess(a, b) == IF (a < 0) = (b < 0) THEN a < b ELSE b < 0

\* byte k of a u64, byte 0 being the least significant
RECURSIVE ByteAt(_, _)
ByteAt(v, k) == IF k = 0 THEN v % 256 ELSE ByteAt(v \div 256, k - 1)

\* u64::to_be_bytes
to_be_bytes(v) == AsSeq([i \in 1..8 |-> ByteAt(v, 8 - i)])

RECURSIVE FoldBytes(_, _)
FoldBytes(bytes, k) == IF k = 0 THEN 0 ELSE FoldBytes(bytes, k - 1) * 256 + bytes[k]

\* u64::from_be_bytes
from_be_bytes(bytes) ==
    IF bytes[1] >= 128
    THEN 0 - 1 - FoldBytes([i \in 1..8 |-> 255 - bytes[i]], 8)
    ELSE FoldBytes(bytes, 8)

\* From<u8>, From<(RustyKey, RustyKey)> and From<u64> for RustyKey
RustyKeyFromU8(value) == <<value>>
RustyKeyFromPair(v0, v1) == v0 \o v1
RustyKeyFromU64(value) == to_be_bytes(value)

\* DbtVec::get_length_key and DbtVec::get_index_key
get_length_key(key_prefix) ==
    RustyKeyFromPair(RustyKeyFromU8(key_prefix), RustyKeyFromU8(0))
get_index_key(key_prefix, index) ==
    RustyKeyFromPair(RustyKeyFromU8(key_prefix), RustyKeyFromU64(index))

\* maps (the database, HashMap) as sets of <<key, value>> pairs
MapHas(map, k) == \E e \in map : e[1] = k
MapGet(map, k) == (CHOOSE e \in map : e[1] = k)[2]
MapRemove(map, k) == {e \in map : e[1] # k}
MapPut(map, k, v) == MapRemove(map, k) \cup {<<k, v>>}

\* SimpleRustyReader::get
ReaderGet(database, k) == IF MapHas(database, k) THEN Some(MapGet(database, k)) ELSE None

\* DbtSchema::new_vec for the table number key_prefix
new_vec(key_prefix) ==
    [current_length |-> None, key_prefix |-> key_prefix, write_queue |-> <<>>, cache |-> {}]

\* DbtVec::persisted_length
persisted_length(self, database) ==
    LET stored == ReaderGet(database, get_length_key(self.key_prefix))
    IN  IF stored = None THEN None ELSE Some(from_be_bytes(stored[1]))

\* StorageVec::len
DbtVec_len(self, database) ==
    IF self.current_length # None THEN self.current_length[1]
    ELSE IF persisted_length(self, database) # None
         THEN persisted_length(self, database)[1]
         ELSE 0

\* mutant: the cache is not consulted
DbtVec_get_NoCache(self, database, index) ==
    IF ~ULess(index, DbtVec_len(self, database)) THEN NoElement
    ELSE LET val == ReaderGet(database, get_index_key(self.key_prefix, index))
         IN  IF val = None THEN NoElement ELSE val[1]

\* StorageVec::get
DbtVec_get(self, database, index) ==
    IF ~ULess(index, DbtVec_len(self, database)) THEN NoElement
    ELSE IF MapHas(self.cache, index) THEN MapGet(self.cache, index)
    ELSE LET val == ReaderGet(database, get_index_key(self.key_prefix, index))
         IN  IF val = None THEN NoElement ELSE val[1]

\* StorageVec::set
DbtVec_set(self, database, index, value) ==
    IF ~ULess(index, DbtVec_len(self, database)) THEN StoragePanic
    ELSE [vector |-> [self EXCEPT
                        !.cache = MapPut(@, index, value),
                        !.write_queue = Append(@, <<"OverWrite", index, value>>)],
          ret |-> <<>>]

\* StorageVec::pop
DbtVec_pop(self, database) ==
    LET queued == [self EXCEPT !.write_queue = Append(@, <<"Pop">>)]
    IN  IF DbtVec_len(queued, database) = 0 THEN [vector |-> queued, ret |-> None]
        ELSE IF queued.current_length = None THEN StoragePanic
        ELSE LET shortened == [queued EXCEPT !.current_length = Some(@[1] - 1)]
                 current_length == DbtVec_len(shortened, database)
             IN  IF MapHas(shortened.cache, current_length)
                 THEN [vector |-> [shortened EXCEPT
                                     !.cache = MapRemove(@, current_length)],
                       ret |-> Some(MapGet(shortened.cache, current_length))]
                 ELSE [vector |-> shortened,
                       ret |-> ReaderGet(database,
                                         get_index_key(self.key_prefix, current_length))]

\* StorageVec::push; current_length + 1 wraps or panics at u64::MAX only
DbtVec_push(self, database, value) ==
    LET current_length == DbtVec_len(self, database)
    IN       [vector |-> [self EXCEPT
                            !.write_queue = Append(@, <<"Push", value>>),
                            !.cache = MapPut(@, current_length, value),
                            !.current_length = Some(current_length + 1)],
              ret |-> <<>>]

\* the while loop of DbtVec::pull_queue: [length, queue] once write_queue
\* is drained; length - 1 overflows at 0 and length + 1 at u64::MAX
RECURSIVE DrainWriteQueue(_, _, _, _, _)
DrainWriteQueue(write_queue, key_prefix, length, queue, checks) ==
    IF write_queue = <<>> THEN [length |-> length, queue |-> queue]
    ELSE LET write_element == Head(write_queue)
         IN  IF write_element[1] = "OverWrite"
             THEN DrainWriteQueue(Tail(write_queue), key_prefix, length,
                      Append(queue, <<"Write", get_index_key(key_prefix, write_element[2]),
                                      write_element[3]>>), checks)
             ELSE IF write_element[1] = "Push"
             THEN IF checks /\ length = 0 - 1 THEN StoragePanic
                  ELSE DrainWriteQueue(Tail(write_queue), key_prefix, length + 1,
                           Append(queue, <<"Write", get_index_key(key_prefix, length),
                                           write_element[2]>>), checks)
             ELSE IF checks /\ length = 0 THEN StoragePanic
                  ELSE DrainWriteQueue(Tail(write_queue), key_prefix, length - 1,
                           Append(queue, <<"Delete", get_index_key(key_prefix, length - 1)>>),
                           checks)

\* DbtVec::pull_queue
DbtVec_pull_queue(self, database, checks) ==
    LET maybe_original_length == persisted_length(self, database)
        original_length ==
            IF maybe_original_length # None THEN maybe_original_length[1] ELSE 0
        drained == DrainWriteQueue(self.write_queue, self.key_prefix, original_length,
                                   <<>>, checks)
    IN  IF drained = StoragePanic THEN StoragePanic
        ELSE [vector |-> [self EXCEPT !.write_queue = <<>>, !.cache = {}],
              queue |->
                 IF original_length # drained.length \/ maybe_original_length = None
                 THEN Append(drained.queue,
                             <<"Write", get_length_key(self.key_prefix),
                               to_be_bytes(drained.length)>>)
                 ELSE drained.queue]

\* mutant: the cache survives restore_or_new
DbtVec_restore_or_new_KeepCache(self, database) ==
    LET length == ReaderGet(database, get_length_key(self.key_prefix))
    IN  [self EXCEPT
           !.current_length = IF length # None THEN Some(from_be_bytes(length[1]))
                              ELSE Some(0),
           !.write_queue = <<>>]

\* DbtVec::restore_or_new
DbtVec_restore_or_new(self, database) ==
    LET length == ReaderGet(database, get_length_key(self.key_prefix))
    IN  [self EXCEPT
           !.current_length = IF length # None THEN Some(from_be_bytes(length[1]))
                              ELSE Some(0),
           !.cache = {},
           !.write_queue = <<>>]

\* T::default() of S(Vec<u8>)
SDefault == <<>>

\* DbtSchema::new_singleton
new_singleton(k) == [current_value |-> SDefault, old_value |-> SDefault, key |-> k]

\* StorageSingleton::get and StorageSingleton::set
DbtSingleton_get(self) == self.current_value
DbtSingleton_set(self, t) == [self EXCEPT !.current_value = t]

\* DbtSingleton::pull_queue
DbtSingleton_pull_queue(self) ==
    IF self.current_value = self.old_value THEN [singleton |-> self, queue |-> <<>>]
    ELSE [singleton |-> [self EXCEPT !.old_value = self.current_value],
          queue |-> <<<<"Write", self.key, self.current_value>>>>]

\* DbtSingleton::restore_or_new
DbtSingleton_restore_or_new(self, database) ==
    LET stored == ReaderGet(database, self.key)
    IN  [self EXCEPT !.current_value = IF stored # None THEN stored[1] ELSE SDefault]

\* WriteBatch: put and delete, applied in order by DB::write
RECURSIVE WriteBatch(_, _)
WriteBatch(database, operations) ==
    IF operations = <<>> THEN database
    ELSE LET op == Head(operations)
         IN  WriteBatch(IF op[1] = "Write" THEN MapPut(database, op[2], op[3])
                                           ELSE MapRemove(database, op[2]),
                        Tail(operations))

(***************************************************************************)
(* Scenario of storage_schema.rs, one DbtVec: a SimpleRustyStorage whose   *)
(* schema holds the vector with key prefix 0 (test_simple_vector).         *)
(***************************************************************************)
MaxVecLen == 2
MaxQueueLen == 2
NumElements == 2

\* the values pushed and set: S([v])
Elements == {<<v>> : v \in 1..NumElements}

InitDbtVec ==
    /\ db = {}
    /\ vector = new_vec(0)
    /\ singleton = <<>>
    /\ storage_op = "new_vec"
    /\ storage_ret = <<>>
    /\ plain_list = <<>>
    /\ plain_ret = <<>>
    /\ persisted_list = <<>>
    /\ restored = FALSE
    /\ popped_empty = FALSE
    /\ set_value = <<>>
    /\ MmrIdle
    /\ MerkleIdle
    /\ Tip5Idle
    /\ PolyIdle
    /\ TritonIdle

\* the program has not aborted; a run ends with the persist that follows a
\* pop on an empty vector
Running ==
    /\ storage_op \notin {"idle", "panic"}
    /\ ~(popped_empty /\ storage_op = "persist")

\* the call aborts the program
Panics ==
    /\ storage_op' = "panic"
    /\ UNCHANGED <<db, vector, singleton, storage_ret, plain_list,
                   plain_ret, persisted_list, restored, popped_empty, set_value>>

\* vector.push(value)
VecPush(value) ==
    /\ Running
    /\ DbtVec_len(vector, db) \in 0..(MaxVecLen - 1)
    /\ Len(vector.write_queue) < MaxQueueLen
    /\ LET called == DbtVec_push(vector, db, value)
       IN  IF called = StoragePanic THEN Panics
           ELSE /\ vector' = called.vector
                /\ storage_op' = "push"
                /\ storage_ret' = called.ret
                /\ plain_list' = Append(plain_list, value)
                /\ UNCHANGED <<db, singleton, plain_ret, persisted_list,
                               restored, popped_empty, set_value>>
    /\ UNCHANGED <<mmrVars, mtVars, tip5Vars, polyVars, tritonVars>>

\* vector.set(index, value), index in bounds
VecSet(index, value) ==
    /\ Running
    /\ Len(vector.write_queue) < MaxQueueLen
    /\ LET called == DbtVec_set(vector, db, index, value)
       IN  IF called = StoragePanic THEN Panics
           ELSE /\ vector' = called.vector
                /\ storage_op' = "set"
                /\ storage_ret' = called.ret
                /\ plain_list' = [i \in DOMAIN plain_list |->
                                    IF i = index + 1 THEN value ELSE plain_list[i]]
                /\ UNCHANGED <<db, singleton, plain_ret, persisted_list,
                               restored, popped_empty, set_value>>
    /\ UNCHANGED <<mmrVars, mtVars, tip5Vars, polyVars, tritonVars>>

\* vector.pop(), on an empty vector too
VecPop ==
    /\ Running
    /\ DbtVec_len(vector, db) \in 0..MaxVecLen
    /\ Len(vector.write_queue) < MaxQueueLen
    /\ LET called == DbtVec_pop(vector, db)
       IN  IF called = StoragePanic THEN Panics
           ELSE /\ vector' = called.vector
                /\ storage_op' = "pop"
                /\ storage_ret' = called.ret
                /\ plain_ret' = IF plain_list = <<>> THEN None
                                ELSE Some(plain_list[Len(plain_list)])
                /\ plain_list' = IF plain_list = <<>> THEN <<>>
                                 ELSE SubSeq(plain_list, 1, Len(plain_list) - 1)
                /\ popped_empty' = (popped_empty \/ plain_list = <<>>
                                    \/ DbtVec_len(vector, db) = 0)
                /\ UNCHANGED <<db, singleton, persisted_list, restored,
                               set_value>>
    /\ UNCHANGED <<mmrVars, mtVars, tip5Vars, polyVars, tritonVars>>

\* SimpleRustyStorage::persist, the schema's tables being <<vector>>, in a
\* build that checks integer overflow (debug) or lets it wrap (release)
VecPersist(overflow_checks) ==
    /\ Running
    /\ LET operations == DbtVec_pull_queue(vector, db, overflow_checks)
       IN  IF operations = StoragePanic THEN Panics
           ELSE /\ vector' = operations.vector
                /\ db' = WriteBatch(db, operations.queue)
                /\ storage_op' = "persist"
                /\ storage_ret' = <<>>
                /\ persisted_list' = plain_list
                /\ UNCHANGED <<singleton, plain_list, plain_ret, restored,
                               popped_empty, set_value>>
    /\ UNCHANGED <<mmrVars, mtVars, tip5Vars, polyVars, tritonVars>>

\* SimpleRustyStorage::restore_or_new, the schema's tables being <<vector>>
VecRestoreOrNew ==
    /\ Running
    /\ vector' = DbtVec_restore_or_new(vector, db)
    /\ storage_op' = "restore_or_new"
    /\ storage_ret' = <<>>
    /\ plain_list' = persisted_list
    /\ restored' = TRUE
    /\ UNCHANGED <<db, singleton, plain_ret, persisted_list,
                   popped_empty, set_value>>
    /\ UNCHANGED <<mmrVars, mtVars, tip5Vars, polyVars, tritonVars>>

\* close; DB::open on the same database; SimpleRustyStorage::new; new_vec
VecReopen ==
    /\ Running
    /\ storage_op # "new_vec"
    /\ vector' = new_vec(0)
    /\ storage_op' = "new_vec"
    /\ storage_ret' = <<>>
    /\ plain_list' = persisted_list
    /\ restored' = FALSE
    /\ UNCHANGED <<db, singleton, plain_ret, persisted_list,
                   popped_empty, set_value>>
    /\ UNCHANGED <<mmrVars, mtVars, tip5Vars, polyVars, tritonVars>>

NextDbtVec ==
    \/ \E value \in Elements : VecPush(value)
    \/ \E index \in 0..(MaxVecLen - 1), value \in Elements :
          /\ index < DbtVec_len(vector, db)
          /\ VecSet(index, value)
    \/ VecPop
    \/ /\ persisted_length(vector, db) \in {None} \cup {Some(n) : n \in 0..MaxVecLen}
       /\ \E overflow_checks \in BOOLEAN : VecPersist(overflow_checks)
    \/ VecRestoreOrNew
    \/ VecReopen

SpecDbtVec == InitDbtVec /\ [][NextDbtVec]_vars

\* the database that holds exactly the list: its length and its elements
RustyEncoding(key_prefix, list) ==
    {<<get_length_key(key_prefix), to_be_bytes(Len(list))>>}
    \cup {<<get_index_key(key_prefix, i - 1), list[i]>> : i \in DOMAIN list}

\* the elements get returns, as a list
Contents ==
    [i \in 1..DbtVec_len(vector, db) |-> DbtVec_get(vector, db, i - 1)]

\* C21: after any sequence of push, in-bounds set and pop on a non-empty
\* vector interleaved with persist, restore_or_new on the same vector or on
\* a fresh vector with the same key prefix over the same database yields
\* the length and the contents the vector had at the last persist.
C21_RestoreYieldsLastPersist ==
    (storage_op = "restore_or_new" /\ ~popped_empty) =>
        /\ DbtVec_len(vector, db) = Len(persisted_list)
        /\ Contents = persisted_list

C21_Witness ==
    /\ storage_op = "restore_or_new"
    /\ ~popped_empty
    /\ Len(persisted_list) = MaxVecLen
    /\ persisted_list[1] # persisted_list[2]
    /\ Len(vector.write_queue) = 0
    /\ Contents = persisted_list

\* C28: pop on an empty DbtVec returns None and has no effect: len() stays
\* 0, and a subsequent persist completes without failure and writes the
\* database state that it writes when pop was not called.
C28_PopOnEmptyHasNoEffect ==
    /\ (storage_op = "pop" /\ plain_ret = None) =>
          (storage_ret = None /\ DbtVec_len(vector, db) = 0)
    /\ (popped_empty /\ storage_op \in {"persist", "panic"}) =>
          (storage_op = "persist" /\ db = RustyEncoding(vector.key_prefix, plain_list))

\* C29: a DbtVec refines an ordinary vector: after restore_or_new and then
\* any sequence of push, in-bounds set, pop on a non-empty vector and
\* persist, no call fails, len() is the length of the ordinary vector,
\* get(i) is its i-th element for every i < len(), and each pop returns
\* its last element, wherever the element lives.
C29_RefinesPlainList ==
    (restored /\ ~popped_empty) =>
        /\ storage_op # "panic"
        /\ DbtVec_len(vector, db) = Len(plain_list)
        /\ Contents = plain_list
        /\ storage_op = "pop" => storage_ret = plain_ret

\* a pop answered from the database and a get answered from the cache
C29_Witness ==
    /\ restored
    /\ ~popped_empty
    /\ storage_op = "pop"
    /\ storage_ret = plain_ret
    /\ storage_ret # None
    /\ Len(persisted_list) = MaxVecLen
    /\ Len(plain_list) = MaxVecLen - 1
    /\ vector.cache # {}

(***************************************************************************)
(* Scenario of storage_schema.rs, one DbtSingleton: a SimpleRustyStorage   *)
(* whose schema holds the singleton with key RustyKey([1])                 *)
(* (test_simple_singleton).  set_value follows a set(v) through the        *)
(* persist and the restore_or_new that come after it.                      *)
(***************************************************************************)
SingletonValues == {SDefault} \cup Elements

InitDbtSingleton ==
    /\ db = {}
    /\ vector = <<>>
    /\ singleton = new_singleton(<<1>>)
    /\ storage_op = "new_singleton"
    /\ storage_ret = <<>>
    /\ plain_list = <<>>
    /\ plain_ret = <<>>
    /\ persisted_list = <<>>
    /\ restored = FALSE
    /\ popped_empty = FALSE
    /\ set_value = <<>>
    /\ MmrIdle
    /\ MerkleIdle
    /\ Tip5Idle
    /\ PolyIdle
    /\ TritonIdle

\* singleton.set(t)
SingletonSet(t) ==
    /\ storage_op # "idle"
    /\ singleton' = DbtSingleton_set(singleton, t)
    /\ storage_op' = "set"
    /\ set_value' = <<"set", t>>
    /\ UNCHANGED <<db, vector, storage_ret, plain_list, plain_ret, persisted_list,
                   restored, popped_empty>>
    /\ UNCHANGED <<mmrVars, mtVars, tip5Vars, polyVars, tritonVars>>

\* SimpleRustyStorage::persist, the schema's tables being <<singleton>>
SingletonPersist ==
    /\ storage_op # "idle"
    /\ LET operations == DbtSingleton_pull_queue(singleton)
       IN  /\ singleton' = operations.singleton
           /\ db' = WriteBatch(db, operations.queue)
    /\ storage_op' = "persist"
    /\ set_value' = IF set_value # <<>> /\ set_value[1] \in {"set", "persisted"}
                    THEN <<"persisted", set_value[2]>>
                    ELSE <<>>
    /\ UNCHANGED <<vector, storage_ret, plain_list, plain_ret, persisted_list,
                   restored, popped_empty>>
    /\ UNCHANGED <<mmrVars, mtVars, tip5Vars, polyVars, tritonVars>>

\* SimpleRustyStorage::restore_or_new, then singleton.get()
SingletonRestoreOrNew ==
    /\ storage_op # "idle"
    /\ singleton' = DbtSingleton_restore_or_new(singleton, db)
    /\ storage_op' = "restore_or_new"
    /\ storage_ret' = DbtSingleton_get(singleton')
    /\ set_value' = IF set_value # <<>> /\ set_value[1] = "persisted"
                    THEN <<"restored", set_value[2]>>
                    ELSE <<>>
    /\ UNCHANGED <<db, vector, plain_list, plain_ret, persisted_list, restored,
                   popped_empty>>
    /\ UNCHANGED <<mmrVars, mtVars, tip5Vars, polyVars, tritonVars>>

\* close; DB::open on the same database; SimpleRustyStorage::new;
\* new_singleton with the same key
SingletonReopen ==
    /\ storage_op \notin {"idle", "new_singleton"}
    /\ singleton' = new_singleton(singleton.key)
    /\ storage_op' = "new_singleton"
    /\ set_value' = IF set_value # <<>> /\ set_value[1] = "persisted"
                    THEN set_value
                    ELSE <<>>
    /\ UNCHANGED <<db, vector, storage_ret, plain_list, plain_ret, persisted_list,
                   restored, popped_empty>>
    /\ UNCHANGED <<mmrVars, mtVars, tip5Vars, polyVars, tritonVars>>

NextDbtSingleton ==
    \/ \E t \in SingletonValues : SingletonSet(t)
    \/ SingletonPersist
    \/ SingletonRestoreOrNew
    \/ SingletonReopen

SpecDbtSingleton == InitDbtSingleton /\ [][NextDbtSingleton]_vars

\* C22: after set(v) followed by persist, restore_or_new on the same
\* singleton or on a fresh singleton with the same key over the same
\* database makes get() return v, for every v, T::default() included,
\* whatever value the database held before.
C22_RestoreReturnsPersistedValue ==
    (set_value # <<>> /\ set_value[1] = "restored") => storage_ret = set_value[2]

(***************************************************************************)
(* Triton VM instructions (shared_math/stark/triton/instruction.rs).       *)
(*                                                                         *)
(* An Instruction is <<variant>> or <<variant, argument>>, a text is the   *)
(* sequence of its characters.  The words of the sample programs are below *)
(* 2^31, far below BFieldElement::QUOTIENT, so that a word is its          *)
(* canonical u64 value.                                                    *)
(***************************************************************************)
\* Ord16: N0 .. N15; Ord4: N0 .. N3
OrdNames ==
    <<"N0", "N1", "N2", "N3", "N4", "N5", "N6", "N7",
      "N8", "N9", "N10", "N11", "N12", "N13", "N14", "N15">>
Ord4 == {OrdNames[i] : i \in 1..4}
Ord16 == {OrdNames[i] : i \in 1..16}

\* usize::from(Ord4) and usize::from(Ord16): the number in the name
OrdToUsize(arg) == (CHOOSE i \in DOMAIN OrdNames : OrdNames[i] = arg) - 1

\* Ord16::try_from(usize)
UsizeToOrd16(n) == IF n < 16 THEN <<OrdNames[n + 1]>> ELSE <<>>

\* u64::from(BFieldElement) and BFieldElement::new on canonical values
WordToU64(arg) == arg

Digits == <<"0", "1", "2", "3", "4", "5", "6", "7", "8", "9">>

\* write!(f, "{}", n) for an unsigned n
RECURSIVE Decimal(_)
Decimal(n) == IF n < 10 THEN <<Digits[n + 1]>>
              ELSE Decimal(n \div 10) \o <<Digits[(n % 10) + 1]>>

\* the text Display writes for each variant without an argument
InstructionNames ==
    <<
       <<"Pop", <<"p", "o", "p">>>>,
       <<"Push", <<"p", "u", "s", "h">>>>,
       <<"Pad", <<"p", "a", "d">>>>,
       <<"Dup", <<"d", "u", "p">>>>,
       <<"Swap", <<"s", "w", "a", "p">>>>,
       <<"Skiz", <<"s", "k", "i", "z">>>>,
       <<"Call", <<"c", "a", "l", "l">>>>,
       <<"Return", <<"r", "e", "t", "u", "r", "n">>>>,
       <<"Recurse", <<"r", "e", "c", "u", "r", "s", "e">>>>,
       <<"Assert", <<"a", "s", "s", "e", "r", "t">>>>,
       <<"Halt", <<"h", "a", "l", "t">>>>,
       <<"ReadMem", <<"r", "e", "a", "d", "_", "m", "e", "m">>>>,
       <<"WriteMem", <<"w", "r", "i", "t", "e", "_", "m", "e", "m">>>>,
       <<"Xlix", <<"x", "l", "i", "x">>>>,
       <<"ClearAll", <<"c", "l", "e", "a", "r", "a", "l", "l">>>>,
       <<"Squeeze", <<"s", "q", "u", "e", "e", "z", "e">>>>,
       <<"Absorb", <<"a", "b", "s", "o", "r", "b">>>>,
       <<"MerkleLeft", <<"m", "e", "r", "k", "l", "e", "_", "l", "e", "f", "t">>>>,
       <<"MerkleRight", <<"m", "e", "r", "k", "l", "e", "_", "r", "i", "g", "h", "t">>>>,
       <<"CmpDigest", <<"c", "m", "p", "_", "d", "i", "g", "e", "s", "t">>>>,
       <<"Add", <<"a", "d", "d">>>>,
       <<"Mul", <<"m", "u", "l">>>>,
       <<"Inv", <<"i", "n", "v">>>>,
       <<"Split", <<"s", "p", "l", "i", "t">>>>,
       <<"Eq", <<"e", "q">>>>,
       <<"Lt", <<"l", "t">>>>,
       <<"And", <<"a", "n", "d">>>>,
       <<"Xor", <<"x", "o", "r">>>>,
       <<"Reverse", <<"r", "e", "v", "e", "r", "s", "e">>>>,
       <<"Div", <<"d", "i", "v">>>>,
       <<"XxAdd", <<"x", "x", "a", "d", "d">>>>,
       <<"XxMul", <<"x", "x", "m", "u", "l">>>>,
       <<"XInv", <<"x", "i", "n", "v">>>>,
       <<"XbMul", <<"x", "b", "m", "u", "l">>>>,
       <<"ReadIo", <<"r", "e", "a", "d", "_", "i", "o">>>>,
       <<"WriteIo", <<"w", "r", "i", "t", "e", "_", "i", "o">>>>
    >>

\* Display for Instruction
DisplayInstruction(instruction) ==
    IF Len(instruction) = 2
    THEN IF instruction[1] \in {"PushArg", "CallArg"}
         THEN Decimal(WordToU64(instruction[2]))
         ELSE Decimal(OrdToUsize(instruction[2]))
    ELSE LET i == CHOOSE j \in DOMAIN InstructionNames :
                      InstructionNames[j][1] = instruction[1]
         IN  InstructionNames[i][2]

\* the text of a program whose Display unwraps a missing argument
DisplayPanic == <<"!">>

\* Display for Program: writeln!("{} {}") for Push and Call,
\* writeln!("{}{}") for Dup, Swap, Squeeze and Absorb
RECURSIVE DisplayProgram(_)
DisplayProgram(instructions) ==
    IF instructions = <<>> THEN <<>>
    ELSE LET item == Head(instructions)
         IN  IF item[1] \in {"Push", "Call", "Dup", "Swap", "Squeeze", "Absorb"}
             THEN IF Len(instructions) < 2 THEN DisplayPanic
                  ELSE LET rest == DisplayProgram(Tail(Tail(instructions)))
                           line == DisplayInstruction(item)
                                   \o (IF item[1] \in {"Push", "Call"} THEN <<" ">> ELSE <<>>)
                                   \o DisplayInstruction(instructions[2]) \o <<"\n">>
                       IN  IF rest = DisplayPanic THEN DisplayPanic ELSE line \o rest
             ELSE LET rest == DisplayProgram(Tail(instructions))
                  IN  IF rest = DisplayPanic THEN DisplayPanic
                      ELSE DisplayInstruction(item) \o <<"\n">> \o rest

\* str::split_whitespace: the maximal runs of characters other than
\* whitespace; token is the run being read
RECURSIVE SplitWhitespace(_, _)
SplitWhitespace(chars, token) ==
    IF chars = <<>> THEN IF token = <<>> THEN <<>> ELSE <<token>>
    ELSE IF Head(chars) \in {" ", "\n", "\t"}
         THEN IF token = <<>> THEN SplitWhitespace(Tail(chars), <<>>)
              ELSE <<token>> \o SplitWhitespace(Tail(chars), <<>>)
         ELSE SplitWhitespace(Tail(chars), Append(token, Head(chars)))

\* Result: Ok(value) and Err(error)
Ok(value) == [ok |-> TRUE, value |-> value, error |-> ""]
Err(error) == [ok |-> FALSE, value |-> <<>>, error |-> error]

DigitValue(c) == (CHOOSE d \in DOMAIN Digits : Digits[d] = c) - 1

RECURSIVE DecimalValue(_, _)
DecimalValue(chars, acc) ==
    IF chars = <<>> THEN acc
    ELSE DecimalValue(Tail(chars), 10 * acc + DigitValue(Head(chars)))

\* str::parse of an unsigned decimal; Display writes no sign
ParseUnsigned(chars) ==
    IF chars = <<>> \/ \E i \in DOMAIN chars : \A d \in DOMAIN Digits : Digits[d] # chars[i]
    THEN Err("ParseIntError")
    ELSE Ok(DecimalValue(chars, 0))

\* parse_arg: the next token as an Ord16
parse_arg(tokens) ==
    IF tokens = <<>> THEN Err("UnexpectedEndOfStream")
    ELSE LET constant_n == ParseUnsigned(Head(tokens))
         IN  IF ~constant_n.ok THEN constant_n
             ELSE IF UsizeToOrd16(constant_n.value) = <<>> THEN Err("TryFromIntError")
             ELSE Ok(UsizeToOrd16(constant_n.value)[1])

\* parse_elem: the next token as a BFieldElement
parse_elem(tokens) ==
    IF tokens = <<>> THEN Err("UnexpectedEndOfStream") ELSE ParseUnsigned(Head(tokens))

\* the arms of parse_token that read no argument
TokenTable ==
    <<
       <<<<"p", "o", "p">>, <<<<"Pop">>>>>>,
       <<<<"p", "a", "d">>, <<<<"Pad">>>>>>,
       <<<<"d", "u", "p", "1">>, <<<<"Dup">>, <<"DupArg", "N0">>>>>>,
       <<<<"d", "u", "p", "2">>, <<<<"Dup">>, <<"DupArg", "N1">>>>>>,
       <<<<"d", "u", "p", "3">>, <<<<"Dup">>, <<"DupArg", "N2">>>>>>,
       <<<<"d", "u", "p", "4">>, <<<<"Dup">>, <<"DupArg", "N3">>>>>>,
       <<<<"s", "w", "a", "p", "1">>, <<<<"Swap">>, <<"SwapArg", "N1">>>>>>,
       <<<<"s", "w", "a", "p", "2">>, <<<<"Swap">>, <<"SwapArg", "N2">>>>>>,
       <<<<"s", "w", "a", "p", "3">>, <<<<"Swap">>, <<"SwapArg", "N3">>>>>>,
       <<<<"s", "k", "i", "z">>, <<<<"Skiz">>>>>>,
       <<<<"r", "e", "t", "u", "r", "n">>, <<<<"Return">>>>>>,
       <<<<"r", "e", "c", "u", "r", "s", "e">>, <<<<"Recurse">>>>>>,
       <<<<"a", "s", "s", "e", "r", "t">>, <<<<"Assert">>>>>>,
       <<<<"h", "a", "l", "t">>, <<<<"Halt">>>>>>,
       <<<<"r", "e", "a", "d", "_", "m", "e", "m">>, <<<<"ReadMem">>>>>>,
       <<<<"w", "r", "i", "t", "e", "_", "m", "e", "m">>, <<<<"WriteMem">>>>>>,
       <<<<"x", "l", "i", "x">>, <<<<"Xlix">>>>>>,
       <<<<"c", "l", "e", "a", "r", "a", "l", "l">>, <<<<"ClearAll">>>>>>,
       <<<<"m", "e", "r", "k", "l", "e", "_", "l", "e", "f", "t">>, <<<<"MerkleLeft">>>>>>,
       <<<<"m", "e", "r", "k", "l", "e", "_", "r", "i", "g", "h", "t">>, <<<<"MerkleRight">>>>>>,
       <<<<"c", "m", "p", "_", "d", "i", "g", "e", "s", "t">>, <<<<"CmpDigest">>>>>>,
       <<<<"a", "d", "d">>, <<<<"Add">>>>>>,
       <<<<"m", "u", "l">>, <<<<"Mul">>>>>>,
       <<<<"i", "n", "v">>, <<<<"Inv">>>>>>,
       <<<<"s", "p", "l", "i", "t">>, <<<<"Split">>>>>>,
       <<<<"e", "q">>, <<<<"Eq">>>>>>,
       <<<<"l", "t">>, <<<<"Lt">>>>>>,
       <<<<"a", "n", "d">>, <<<<"And">>>>>>,
       <<<<"x", "o", "r">>, <<<<"Xor">>>>>>,
       <<<<"r", "e", "v", "e", "r", "s", "e">>, <<<<"Reverse">>>>>>,
       <<<<"d", "i", "v">>, <<<<"Div">>>>>>,
       <<<<"x", "x", "a", "d", "d">>, <<<<"XxAdd">>>>>>,
       <<<<"x", "x", "m", "u", "l">>, <<<<"XbMul">>>>>>,
       <<<<"x", "i", "n", "v">>, <<<<"XInv">>>>>>,
       <<<<"x", "b", "m", "u", "l">>, <<<<"XbMul">>>>>>,
       <<<<"r", "e", "a", "d", "_", "i", "o">>, <<<<"ReadIo">>>>>>,
       <<<<"w", "r", "i", "t", "e", "_", "i", "o">>, <<<<"WriteIo">>>>>>
    >>

\* parse_token: Ok of the instructions and of the number of argument
\* tokens consumed
parse_token(token, tokens) ==
    IF token \in {<<"p", "u", "s", "h">>, <<"c", "a", "l", "l">>}
    THEN LET elem == parse_elem(tokens)
         IN  IF ~elem.ok THEN elem
             ELSE IF token = <<"p", "u", "s", "h">>
                  THEN Ok([instruction |-> <<<<"Push">>, <<"PushArg", elem.value>>>>, consumed |-> 1])
                  ELSE Ok([instruction |-> <<<<"Call">>, <<"CallArg", elem.value>>>>, consumed |-> 1])
    ELSE IF token \in {<<"s", "q", "u", "e", "e", "z", "e">>, <<"a", "b", "s", "o", "r", "b">>}
    THEN LET arg == parse_arg(tokens)
         IN  IF ~arg.ok THEN arg
             ELSE IF token = <<"s", "q", "u", "e", "e", "z", "e">>
                  THEN Ok([instruction |-> <<<<"Squeeze">>, <<"SqueezeArg", arg.value>>>>, consumed |-> 1])
                  ELSE Ok([instruction |-> <<<<"Absorb">>, <<"AbsorbArg", arg.value>>>>, consumed |-> 1])
    ELSE IF \E i \in DOMAIN TokenTable : TokenTable[i][1] = token
    THEN LET i == CHOOSE j \in DOMAIN TokenTable : TokenTable[j][1] = token
         IN  Ok([instruction |-> TokenTable[i][2], consumed |-> 0])
    ELSE Err("UnknownInstruction")

\* the while loop of parse
RECURSIVE ParseTokens(_, _)
ParseTokens(tokens, instructions) ==
    IF tokens = <<>> THEN Ok(instructions)
    ELSE LET instruction == parse_token(Head(tokens), Tail(tokens))
         IN  IF ~instruction.ok THEN instruction
             ELSE ParseTokens(SubSeq(tokens, 2 + instruction.value.consumed, Len(tokens)),
                              instructions \o instruction.value.instruction)

\* parse
parse(text) == ParseTokens(SplitWhitespace(text, <<>>), <<>>)

(***************************************************************************)
(* Scenario: a well-formed program is formatted and the text is parsed     *)
(* (parse_display_push_pop_test).                                          *)
(***************************************************************************)
MaxUnits == 2

SampleWords == {0, 7, 10, 2147483647}

\* an instruction with the words that belong to it
SingleWordUnits ==
    {<<<<name>>>> : name \in {"Pop", "Pad", "Skiz", "Return", "Recurse", "Assert", "Halt", "ReadMem", "WriteMem", "Xlix", "ClearAll", "MerkleLeft", "MerkleRight", "CmpDigest", "Add", "Mul", "Inv", "Split", "Eq", "Lt", "And", "Xor", "Reverse", "Div", "XxAdd", "XxMul", "XInv", "XbMul", "ReadIo", "WriteIo"}}

DoubleWordUnits ==
    {<<<<"Push">>, <<"PushArg", w>>>> : w \in SampleWords}
    \cup {<<<<"Call">>, <<"CallArg", w>>>> : w \in SampleWords}
    \cup {<<<<"Dup">>, <<"DupArg", n>>>> : n \in Ord4}
    \cup {<<<<"Swap">>, <<"SwapArg", n>>>> : n \in Ord4}
    \cup {<<<<"Squeeze">>, <<"SqueezeArg", n>>>> : n \in Ord16}
    \cup {<<<<"Absorb">>, <<"AbsorbArg", n>>>> : n \in Ord16}

\* the units that programs of several units are made of
SampleUnits ==
    {<<<<"Pop">>>>, <<<<"Add">>>>, <<<<"XbMul">>>>,
     <<<<"Push">>, <<"PushArg", 10>>>>, <<<<"Call">>, <<"CallArg", 7>>>>,
     <<<<"Swap">>, <<"SwapArg", "N1">>>>}

RECURSIVE Flatten(_)
Flatten(units) == IF units = <<>> THEN <<>> ELSE Head(units) \o Flatten(Tail(units))

\* well-formed programs: every unit alone, and up to MaxUnits sample units
WellFormedPrograms ==
    SingleWordUnits \cup DoubleWordUnits
    \cup {Flatten(units) : units \in UNION {[1..k -> SampleUnits] : k \in 0..MaxUnits}}

InitTriton ==
    /\ program \in WellFormedPrograms
    /\ code = <<>>
    /\ parsed = <<>>
    /\ triton_step = "program"
    /\ MmrIdle
    /\ MerkleIdle
    /\ Tip5Idle
    /\ PolyIdle
    /\ StorageIdle

\* format!("{}", program)
Format ==
    /\ triton_step = "program"
    /\ code' = DisplayProgram(program)
    /\ triton_step' = "formatted"
    /\ UNCHANGED <<program, parsed, mmrVars, mtVars, tip5Vars, polyVars, dbVars>>

\* parse(&code)
Parse ==
    /\ triton_step = "formatted"
    /\ parsed' = parse(code)
    /\ triton_step' = "parsed"
    /\ UNCHANGED <<program, code, mmrVars, mtVars, tip5Vars, polyVars, dbVars>>

NextTriton ==
    \/ Format
    \/ Parse

SpecTriton == InitTriton /\ [][NextTriton]_vars

\* C23: parsing is the inverse of printing: for every well-formed Program
\* p, parse(format(p)) succeeds and returns a program equal to p.
C23_ParseInvertsDisplay ==
    triton_step = "parsed" => (parsed.ok /\ parsed.value = program)

====
